---- MODULE Spec2Model ----
(***************************************************************************)
(* K-Menu command palette (freelens-ext-k-menu).                           *)
(*                                                                         *)
(* The palette lives in the main window (KMenuPalette); every cluster      *)
(* frame runs the message handler of KMenuRenderer and owns the resource   *)
(* stores.  The two sides talk over window.postMessage.                    *)
(*                                                                         *)
(* Strings are tuples of one-character strings, so that toLowerCase,       *)
(* includes, split and the regular expressions of the source are computed  *)
(* and not assumed.  Indices are 0-based as in the source; a JavaScript    *)
(* array a[i] is the TLA+ sequence element a[i + 1].                       *)
(***************************************************************************)
EXTENDS Integers, Sequences, FiniteSets, TLC

(***************************************************************************)
(* String literals of the source.                                          *)
(***************************************************************************)
S_empty == <<>>
S_slash == <<"/">>
S_space == <<" ">>
S_kind == <<"k", "i", "n", "d">>
S_namespace == <<"n", "a", "m", "e", "s", "p", "a", "c", "e">>
S_node == <<"n", "o", "d", "e">>
S_Node == <<"N", "o", "d", "e">>
S_Pod == <<"P", "o", "d">>
S_Service == <<"S", "e", "r", "v", "i", "c", "e">>
S_logs == <<"l", "o", "g", "s">>
S_describe == <<"d", "e", "s", "c", "r", "i", "b", "e">>
S_delete == <<"d", "e", "l", "e", "t", "e">>
S_refresh == <<"r", "e", "f", "r", "e", "s", "h">>
D_logs == <<"V", "i", "e", "w", " ", "p", "o", "d", " ", "l", "o", "g", "s">>
D_describe == <<"S", "h", "o", "w", " ", "d", "e", "t", "a", "i", "l", "e", "d", " ", "r", "e", "s", "o", "u", "r", "c", "e", " ", "i", "n", "f", "o", "r", "m", "a", "t", "i", "o", "n">>
D_delete == <<"D", "e", "l", "e", "t", "e", " ", "t", "h", "e", " ", "s", "e", "l", "e", "c", "t", "e", "d", " ", "r", "e", "s", "o", "u", "r", "c", "e", " ", "(", "r", "e", "q", "u", "i", "r", "e", "s", " ", "c", "o", "n", "f", "i", "r", "m", "a", "t", "i", "o", "n", ")">>
D_refresh == <<"R", "e", "l", "o", "a", "d", " ", "a", "l", "l", " ", "r", "e", "s", "o", "u", "r", "c", "e", "s", " ", "f", "r", "o", "m", " ", "t", "h", "e", " ", "c", "l", "u", "s", "t", "e", "r">>

\* null / undefined of a string-valued or enumerated field
NULL == "null"

\* an optional object or array: None is null / undefined
None == <<>>
Some(x) == <<x>>

(***************************************************************************)
(* String.prototype helpers.                                               *)
(***************************************************************************)
toLowerCaseChar(c) ==
  CASE c = "A" -> "a" []
     c = "B" -> "b" []
     c = "C" -> "c" []
     c = "D" -> "d" []
     c = "E" -> "e" []
     c = "F" -> "f" []
     c = "G" -> "g" []
     c = "H" -> "h" []
     c = "I" -> "i" []
     c = "J" -> "j" []
     c = "K" -> "k" []
     c = "L" -> "l" []
     c = "M" -> "m" []
     c = "N" -> "n" []
     c = "O" -> "o" []
     c = "P" -> "p" []
     c = "Q" -> "q" []
     c = "R" -> "r" []
     c = "S" -> "s" []
     c = "T" -> "t" []
     c = "U" -> "u" []
     c = "V" -> "v" []
     c = "W" -> "w" []
     c = "X" -> "x" []
     c = "Y" -> "y" []
     c = "Z" -> "z" []
     OTHER -> c

toLowerCase(s) ==
  IF s = <<>> THEN <<>> ELSE [i \in 1..Len(s) |-> toLowerCaseChar(s[i])]

includes(text, sub) ==
  \E i \in 0..(Len(text) - Len(sub)) : SubSeq(text, i + 1, i + Len(sub)) = sub

startsWith(text, prefix) ==
  /\ Len(prefix) <= Len(text)
  /\ SubSeq(text, 1, Len(prefix)) = prefix

substring(s, from) ==
  IF from >= Len(s) THEN <<>> ELSE SubSeq(s, from + 1, Len(s))

\* \s of the regular expressions
isSpace(c) == c = " "

\* \w of the regular expressions
isWord(c) ==
  c \in {"a", "b", "c", "d", "e", "f", "g", "h", "i", "j", "k", "l", "m",
         "n", "o", "p", "q", "r", "s", "t", "u", "v", "w", "x", "y", "z",
         "A", "B", "C", "D", "E", "F", "G", "H", "I", "J", "K", "L", "M",
         "N", "O", "P", "Q", "R", "S", "T", "U", "V", "W", "X", "Y", "Z",
         "0", "1", "2", "3", "4", "5", "6", "7", "8", "9", "_"}

\* length of the longest prefix of s whose characters all satisfy the test
RECURSIVE runLength(_, _)
runLength(s, space) ==
  IF s = <<>> \/ isSpace(Head(s)) # space THEN 0
  ELSE 1 + runLength(Tail(s), space)

RECURSIVE wordRunLength(_)
wordRunLength(s) ==
  IF s = <<>> \/ ~isWord(Head(s)) THEN 0 ELSE 1 + wordRunLength(Tail(s))

\* s.trim()
RECURSIVE trimEnd(_)
trimEnd(s) ==
  IF s = <<>> THEN <<>>
  ELSE IF isSpace(s[Len(s)]) THEN trimEnd(SubSeq(s, 1, Len(s) - 1)) ELSE s

trim(s) == trimEnd(substring(s, runLength(s, TRUE)))

\* s.split(/\s+/).filter(term => term.length > 0)
RECURSIVE splitTerms(_)
splitTerms(s) ==
  IF s = <<>> THEN <<>>
  ELSE IF isSpace(Head(s)) THEN splitTerms(substring(s, runLength(s, TRUE)))
  ELSE LET n == runLength(s, FALSE)
       IN <<SubSeq(s, 1, n)>> \o splitTerms(substring(s, n))

\* Array.prototype.slice(0, n)
slice(a, n) == IF Len(a) <= n THEN a ELSE SubSeq(a, 1, n)

\* JavaScript truthiness of a[i]: FALSE when i is out of range
hasIndex(a, i) == i >= 0 /\ i < Len(a)

min(a, b) == IF a < b THEN a ELSE b
max(a, b) == IF a > b THEN a ELSE b

(***************************************************************************)
(* Resources (KubeResource).  uid and apiVersion are passed through and    *)
(* never read by the palette; they are left out.  An absent namespace is   *)
(* the empty string: the source only tests it for truthiness.              *)
(***************************************************************************)
S_a == <<"a">>
S_b == <<"b">>
S_ns1 == <<"n", "s", "1">>
S_ns2 == <<"n", "s", "2">>

KubeResource(k, ns, n) == [kind |-> k, namespace |-> ns, name |-> n]

PodA == KubeResource(S_Pod, S_ns1, S_a)
PodB == KubeResource(S_Pod, S_ns2, S_b)
ServiceA == KubeResource(S_Service, S_ns1, S_a)

getDisplayText(resource) ==
  IF resource.namespace # <<>>
  THEN resource.kind \o S_slash \o resource.namespace \o S_slash \o resource.name
  ELSE resource.kind \o S_slash \o resource.name

(***************************************************************************)
(* fuzzyMatch: scan text once, consuming the query in order.               *)
(***************************************************************************)
RECURSIVE fuzzyScan(_, _, _, _, _)
fuzzyScan(text, query, i, queryIndex, score) ==
  IF i < Len(text) /\ queryIndex < Len(query)
  THEN IF text[i + 1] = query[queryIndex + 1]
       THEN fuzzyScan(text, query, i + 1, queryIndex + 1, score + 1)
       ELSE fuzzyScan(text, query, i + 1, queryIndex, score)
  ELSE [queryIndex |-> queryIndex, score |-> score]

\* a faulty fuzzyMatch that does not divide by the length of the query
fuzzyMatchUnscaledTimes2(text, query) ==
  LET r == fuzzyScan(text, query, 0, 0, 0)
  IN IF r.queryIndex = Len(query) THEN 2 * r.score ELSE 0

\* score / query.length is 1 whenever the whole query was consumed, because
\* score and queryIndex advance together; the result is kept doubled
\* (fuzzyScore * 2) so that it stays an integer.
fuzzyMatchTimes2(text, query) ==
  LET r == fuzzyScan(text, query, 0, 0, 0)
  IN IF r.queryIndex = Len(query) THEN (2 * r.score) \div Len(query) ELSE 0

(***************************************************************************)
(* Filters: activeFilters.forEach(filter => filteredResources.filter(..))  *)
(***************************************************************************)
Filter(t, v) == [type |-> t, value |-> v]

\* a faulty test whose node filter compares the name of any resource
passesFilterNodeByName(r, filter) ==
  CASE filter.type = "kind" ->
         toLowerCase(r.kind) = toLowerCase(filter.value)
    [] filter.type = "namespace" ->
         r.namespace # <<>> /\ toLowerCase(r.namespace) = toLowerCase(filter.value)
    [] filter.type = "node" ->
         toLowerCase(r.name) = toLowerCase(filter.value)

passesFilter(r, filter) ==
  CASE filter.type = "kind" ->
         toLowerCase(r.kind) = toLowerCase(filter.value)
    [] filter.type = "namespace" ->
         r.namespace # <<>> /\ toLowerCase(r.namespace) = toLowerCase(filter.value)
    [] filter.type = "node" ->
         r.kind = S_Node /\ toLowerCase(r.name) = toLowerCase(filter.value)

applyFilters(resources, filters) ==
  SelectSeq(resources, LAMBDA r : \A i \in 1..Len(filters) : passesFilter(r, filters[i]))

(***************************************************************************)
(* performSearch: per-term score and the ranked list.                      *)
(***************************************************************************)
\* a faulty score that lets a term pass that matches nowhere
termScoreLenient(resource, term) ==
  LET displayTextLower == toLowerCase(getDisplayText(resource))
  IN IF includes(displayTextLower, term) THEN 10
     ELSE IF includes(toLowerCase(resource.name), term) THEN 8
     ELSE IF includes(toLowerCase(resource.kind), term) THEN 6
     ELSE IF includes(toLowerCase(resource.namespace), term) THEN 5
     ELSE max(fuzzyMatchTimes2(displayTextLower, term), 1)

\* contribution of one term, 0 when the term matches nowhere
termScore(resource, term) ==
  LET displayTextLower == toLowerCase(getDisplayText(resource))
  IN IF includes(displayTextLower, term) THEN 10
     ELSE IF includes(toLowerCase(resource.name), term) THEN 8
     ELSE IF includes(toLowerCase(resource.kind), term) THEN 6
     ELSE IF includes(toLowerCase(resource.namespace), term) THEN 5
     ELSE fuzzyMatchTimes2(displayTextLower, term)

RECURSIVE totalScore(_, _)
totalScore(resource, searchTerms) ==
  IF searchTerms = <<>> THEN 0
  ELSE LET s == termScore(resource, Head(searchTerms))
           rest == totalScore(resource, Tail(searchTerms))
       IN IF s = 0 \/ (Tail(searchTerms) # <<>> /\ rest = 0) THEN 0 ELSE s + rest

SearchResult(r, score) == [resource |-> r, matchScore |-> score]

\* Array.prototype.sort((a, b) => b.matchScore - a.matchScore): stable, so
\* the place of an element is one more than the number of elements that
\* score higher or score the same and stand before it
rankByScore(a, i) ==
  1 + Cardinality({j \in 1..Len(a) :
                     \/ a[j].matchScore > a[i].matchScore
                     \/ (a[j].matchScore = a[i].matchScore /\ j < i)})

placeByRank(a, ranks) ==
  [k \in 1..Len(a) |-> a[CHOOSE i \in 1..Len(a) : ranks[i] = k]]

\* a faulty sort that leaves the array as it is
sortByNothing(a) == a

sortByScore(a) == placeByRank(a, [i \in 1..Len(a) |-> rankByScore(a, i)])

RESULT_LIMIT == 50

searchResults(resources, filters, query) ==
  LET filteredResources == applyFilters(resources, filters)
  IN IF query = <<>>
     THEN [i \in 1..Len(slice(filteredResources, RESULT_LIMIT)) |->
             SearchResult(filteredResources[i], 1)]
     ELSE LET searchTerms == splitTerms(toLowerCase(query))
              scored == [i \in 1..Len(filteredResources) |->
                           SearchResult(filteredResources[i],
                                        totalScore(filteredResources[i], searchTerms))]
          IN slice(sortByScore(SelectSeq(scored, LAMBDA x : x.matchScore > 0)),
                   RESULT_LIMIT)

(***************************************************************************)
(* Array.prototype.sort() without comparator on strings (UTF-16 code unit  *)
(* order) and Array.from(new Set(..)) (first occurrences, in order).       *)
(***************************************************************************)
CODE_UNIT_ORDER ==
  <<" ", "(", ")", "-", "/", "0", "1", "2", "3", "4", "5", "6", "7", "8", "9", ":",
    "A", "B", "C", "D", "E", "F", "G", "H", "I", "J", "K", "L", "M",
    "N", "O", "P", "Q", "R", "S", "T", "U", "V", "W", "X", "Y", "Z", "_",
    "a", "b", "c", "d", "e", "f", "g", "h", "i", "j", "k", "l", "m",
    "n", "o", "p", "q", "r", "s", "t", "u", "v", "w", "x", "y", "z">>

charCode(c) == CHOOSE i \in 1..Len(CODE_UNIT_ORDER) : CODE_UNIT_ORDER[i] = c

RECURSIVE stringLess(_, _)
stringLess(a, b) ==
  IF b = <<>> THEN FALSE
  ELSE IF a = <<>> THEN TRUE
  ELSE IF Head(a) = Head(b) THEN stringLess(Tail(a), Tail(b))
  ELSE charCode(Head(a)) < charCode(Head(b))

RECURSIVE insertString(_, _)
insertString(sorted, x) ==
  IF sorted = <<>> THEN <<x>>
  ELSE IF stringLess(x, Head(sorted)) THEN <<x>> \o sorted
  ELSE <<Head(sorted)>> \o insertString(Tail(sorted), x)

RECURSIVE sortStrings(_)
sortStrings(a) ==
  IF a = <<>> THEN <<>>
  ELSE insertString(sortStrings(SubSeq(a, 1, Len(a) - 1)), a[Len(a)])

\* the elements of a at the given positions
pick(a, positions) == [k \in 1..Len(positions) |-> a[positions[k]]]

distinct(a) ==
  pick(a, SelectSeq([i \in 1..Len(a) |-> i],
                    LAMBDA i : \A j \in 1..(i - 1) : a[j] # a[i]))

mapSeq(a, Op(_)) == IF a = <<>> THEN <<>> ELSE [i \in 1..Len(a) |-> Op(a[i])]

(***************************************************************************)
(* Commands.  The catalog knows one cluster, so the label sort of          *)
(* buildNavigationCommands has nothing to reorder.                         *)
(***************************************************************************)
S_clusterId == <<"c", "l", "u", "s", "t", "e", "r", "-", "c", "1">>
S_clusterLabel == <<"c", "l", "u", "s", "t", "e", "r", " ", "d", "e", "v">>
D_cluster == <<"S", "w", "i", "t", "c", "h", " ", "t", "o", " ", "c", "l", "u", "s", "t", "e", "r", ":", " ", "d", "e", "v">>

Command(id, label, description, requiresResource, resourceTypes) ==
  [id |-> id, label |-> label, description |-> description,
   requiresResource |-> requiresResource, resourceTypes |-> resourceTypes]

buildNavigationCommands ==
  <<Command(S_clusterId, S_clusterLabel, D_cluster, FALSE, None)>>

initializeCommands ==
  buildNavigationCommands \o
  <<Command(S_logs, S_logs, D_logs, TRUE, Some(<<S_Pod>>)),
    Command(S_describe, S_describe, D_describe, TRUE, None),
    Command(S_delete, S_delete, D_delete, TRUE, None),
    Command(S_refresh, S_refresh, D_refresh, FALSE, None)>>

\* the command list narrowed by the text after the leading "/"
filteredCommands(availableCommands, inputValue) ==
  LET searchTerms == splitTerms(toLowerCase(substring(inputValue, 1)))
  IN SelectSeq(availableCommands, LAMBDA cmd :
       \A i \in 1..Len(searchTerms) :
          \/ includes(toLowerCase(cmd.label), searchTerms[i])
          \/ includes(toLowerCase(cmd.description), searchTerms[i]))

(***************************************************************************)
(* The two regular expressions of updateAutocompleteHint.                  *)
(***************************************************************************)
\* query.match(/^\/(\w+)(?:\s+(.+))?$/): group 1 is the word after "/",
\* group 2 the text after the following white space ("" when absent).
\* \s+ is greedy; when nothing follows the white space the match backtracks
\* by one blank, which needs at least two of them.
commandMatch(query) ==
  LET afterSlash == substring(query, 1)
      w == wordRunLength(afterSlash)
      rest == substring(afterSlash, w)
      blanks == runLength(rest, TRUE)
      tail == substring(rest, blanks)
      noMatch == [matched |-> FALSE, name |-> <<>>, searchQuery |-> <<>>]
  IN IF ~startsWith(query, S_slash) \/ w = 0 THEN noMatch
     ELSE IF rest = <<>>
          THEN [matched |-> TRUE, name |-> SubSeq(afterSlash, 1, w), searchQuery |-> <<>>]
     ELSE IF blanks = 0 THEN noMatch
     ELSE IF tail # <<>>
          THEN [matched |-> TRUE, name |-> SubSeq(afterSlash, 1, w), searchQuery |-> tail]
     ELSE IF blanks >= 2
          THEN [matched |-> TRUE, name |-> SubSeq(afterSlash, 1, w), searchQuery |-> S_space]
     ELSE noMatch

\* text.match(/^(kind|namespace|node):(.*)$/i)
filterMatch(text) ==
  LET colon == <<":">>
      lower == toLowerCase(text)
      hit(name) == startsWith(lower, name \o colon)
      found(type, name) ==
        [matched |-> TRUE, filterType |-> type,
         filterValue |-> trim(substring(text, Len(name) + 1))]
  IN IF hit(S_kind) THEN found("kind", S_kind)
     ELSE IF hit(S_namespace) THEN found("namespace", S_namespace)
     ELSE IF hit(S_node) THEN found("node", S_node)
     ELSE [matched |-> FALSE, filterType |-> NULL, filterValue |-> <<>>]

\* the values a filter type can take, taken from the loaded resources
kindValues(allResources) == distinct(mapSeq(allResources, LAMBDA r : r.kind))

namespaceValues(allResources) ==
  distinct(mapSeq(SelectSeq(allResources, LAMBDA r : r.namespace # <<>>),
                  LAMBDA r : r.namespace))

nodeValues(allResources) ==
  distinct(mapSeq(SelectSeq(allResources, LAMBDA r : r.kind = S_Node),
                  LAMBDA r : r.name))

filterValues(allResources, filterType) ==
  CASE filterType = "kind" -> kindValues(allResources)
    [] filterType = "namespace" -> namespaceValues(allResources)
    [] filterType = "node" -> nodeValues(allResources)

containing(values, filterValue) ==
  SelectSeq(values, LAMBDA v : includes(toLowerCase(v), toLowerCase(filterValue)))

(***************************************************************************)
(* Bounds of the model and the inputs drawn from the environment.          *)
(***************************************************************************)
\* requests the palette may issue in one run
MaxRequests == 3
\* envelopes that something other than a cluster frame's handler may post
MaxForeign == 1
\* key presses, edits, clicks and focus changes of the user
MaxEvents == 3

\* cluster frames (Window objects) and the cluster id in their host name
Peers == {"w1", "w2"}
ClusterOf(w) == IF w = "w1" THEN "c1" ELSE "c2"
Clusters == {ClusterOf(w) : w \in Peers}

\* Math.random().toString(36).substring(7) may return the same string twice
RequestIds == {"r1", "r2"}

\* what the stores of a frame may list
ListingsOf(w) ==
  IF w = "w1" THEN {<<ServiceA, PodA>>, <<PodA>>} ELSE {<<PodB>>}

\* buffers the user may leave in the input box
S_query == <<"a">>
S_deleteA == <<"/", "d", "e", "l", "e", "t", "e", " ", "a">>
S_logsA == <<"/", "l", "o", "g", "s", " ", "a">>
S_slashRefresh == <<"/", "r", "e", "f", "r", "e", "s", "h">>
S_slashLogs == <<"/", "l", "o", "g", "s">>
Buffers == {S_empty, S_query, S_deleteA, S_logsA, S_slashRefresh, S_slashLogs}

(***************************************************************************)
(* Rendering into resultsList.  selected is the index of the item that     *)
(* carries the `selected' class, -1 when no item does.                     *)
(***************************************************************************)
View(kind, text, items, selected) ==
  [kind |-> kind, text |-> text, items |-> items, selected |-> selected]

highlighted(items, index) == IF hasIndex(items, index) THEN index ELSE -1

renderResults(S) ==
  [S EXCEPT !.resultsList =
     IF S.results = <<>>
     THEN View("empty",
               IF S.allResources = <<>> THEN "Loading resources..."
               ELSE "No resources found", <<>>, -1)
     ELSE View("results", "", mapSeq(S.results, LAMBDA x : x.resource),
               highlighted(S.results, S.selectedIndex))]

\* the branch of renderCommandList after `filtered' is computed
showCommands(S, filtered) ==
  [S EXCEPT !.resultsList =
     IF filtered = <<>> THEN View("empty", "No commands found", <<>>, -1)
     ELSE View("commands", "", mapSeq(filtered, LAMBDA cmd : cmd.id),
               highlighted(filtered, S.selectedCommandIndex))]

renderCommandList(S) ==
  showCommands(S, filteredCommands(S.availableCommands, S.inputValue))

\* the resources offered to the active command
ofTypes(resources, resourceTypes) ==
  IF resourceTypes # None
  THEN SelectSeq(resources, LAMBDA r :
         \E i \in 1..Len(resourceTypes[1]) : resourceTypes[1][i] = r.kind)
  ELSE resources

matchingQuery(resources, searchQuery) ==
  IF searchQuery # <<>>
  THEN SelectSeq(resources, LAMBDA r :
         \/ includes(toLowerCase(r.name), searchQuery)
         \/ (r.namespace # <<>> /\ includes(toLowerCase(r.namespace), searchQuery))
         \/ includes(toLowerCase(r.kind), searchQuery))
  ELSE resources

commandResources(S) ==
  slice(matchingQuery(ofTypes(applyFilters(S.allResources, S.activeFilters),
                              S.activeCommand[1].resourceTypes),
                      toLowerCase(S.commandSearchQuery)),
        RESULT_LIMIT)

\* the branch of renderCommandResourceList after the resources are filtered
showCommandResources(S, filteredResources) ==
  IF filteredResources = <<>>
  THEN [S EXCEPT !.resultsList = View("empty", "No matching resources", <<>>, -1)]
  ELSE [S EXCEPT
          !.resultsList = View("commandResources", "", filteredResources,
                               highlighted(filteredResources, S.selectedIndex)),
          !.results = mapSeq(filteredResources, LAMBDA r : SearchResult(r, 1)),
          !.selectedIndex = 0]

renderCommandResourceList(S) ==
  IF S.activeCommand = None THEN S
  ELSE showCommandResources(S, commandResources(S))

renderAutocompleteHint(S) ==
  [S EXCEPT !.autocompleteHint =
     IF S.autocompleteSuggestions = <<>> THEN [items |-> <<>>, selected |-> -1]
     ELSE [items |-> S.autocompleteSuggestions,
           selected |-> highlighted(S.autocompleteSuggestions, S.autocompleteSelectedIndex)]]

(***************************************************************************)
(* updateAutocompleteHint.                                                 *)
(***************************************************************************)
resetAutocomplete(S) ==
  [S EXCEPT !.autocompleteFilterType = NULL,
            !.autocompleteSuggestions = <<>>,
            !.autocompleteSelectedIndex = -1]

showSuggestions(S, suggestions) ==
  renderAutocompleteHint(
    [S EXCEPT !.autocompleteSuggestions = suggestions,
              !.autocompleteSelectedIndex =
                 IF @ = -1 /\ suggestions # <<>> THEN 0 ELSE @])

\* "Just showing command list"
showCommandList(S) ==
  renderCommandList(
    [resetAutocomplete(S) EXCEPT !.activeCommand = None, !.commandSearchQuery = <<>>])

\* a faulty filter branch that offers the kinds of the loaded resources
\* whatever the command accepts
commandFilterHintAllKinds(S, k, fm) ==
  LET T == [S EXCEPT !.autocompleteFilterType = fm.filterType,
                     !.activeCommand = Some(S.availableCommands[k])]
      allValues == filterValues(S.allResources, fm.filterType)
  IN IF fm.filterValue = <<>>
     THEN showSuggestions(T, slice(sortStrings(allValues), 10))
     ELSE showSuggestions(T, slice(sortStrings(containing(allValues, fm.filterValue)), 10))

\* the filter branch inside a command: /logs kind:...
commandFilterHint(S, k, fm) ==
  LET cmd == S.availableCommands[k]
      ownTypes == fm.filterType = "kind" /\ cmd.resourceTypes # None
      \* resourceTypes.sort() sorts the command's own array in place
      sortedCmd == [cmd EXCEPT !.resourceTypes = Some(sortStrings(@[1]))]
      T == [S EXCEPT !.autocompleteFilterType = fm.filterType,
                     !.activeCommand =
                        Some(IF ownTypes /\ fm.filterValue = <<>> THEN sortedCmd ELSE cmd),
                     !.availableCommands =
                        IF ownTypes /\ fm.filterValue = <<>>
                        THEN [@ EXCEPT ![k] = sortedCmd] ELSE @]
      allValues == IF ownTypes THEN cmd.resourceTypes[1]
                   ELSE filterValues(S.allResources, fm.filterType)
  IN IF fm.filterValue = <<>>
     THEN showSuggestions(T, IF ownTypes THEN sortedCmd.resourceTypes[1]
                             ELSE slice(sortStrings(allValues), 10))
     ELSE showSuggestions(T, slice(sortStrings(containing(allValues, fm.filterValue)), 10))

\* the branch for a command found at index k, with the text after its name
commandFound(S, k, searchQuery, fm) ==
  IF fm.matched THEN commandFilterHint(S, k, fm)
  ELSE IF searchQuery # <<>> /\ S.availableCommands[k].requiresResource
       THEN renderCommandResourceList(
              [resetAutocomplete(S) EXCEPT !.activeCommand = Some(S.availableCommands[k]),
                                           !.commandSearchQuery = searchQuery])
       ELSE showCommandList(
              IF searchQuery = <<>>
              THEN [S EXCEPT !.activeCommand = Some(S.availableCommands[k])]
              ELSE S)

\* availableCommands.find(..): the indices of the commands the name selects
commandsNamed(availableCommands, commandName) ==
  {i \in 1..Len(availableCommands) :
     \/ availableCommands[i].id = commandName
     \/ startsWith(toLowerCase(availableCommands[i].label), commandName)}

commandMatched(S, m, hits) ==
  IF ~m.matched \/ hits = {} THEN showCommandList(S)
  ELSE commandFound(S, CHOOSE i \in hits : \A j \in hits : i <= j,
                    m.searchQuery, filterMatch(m.searchQuery))

commandHintFor(S, m) ==
  commandMatched(S, m, commandsNamed(S.availableCommands, toLowerCase(m.name)))

commandHint(S) == commandHintFor(S, commandMatch(S.inputValue))

plainHintFor(S, fm) ==
  IF ~fm.matched
  THEN [resetAutocomplete(S) EXCEPT !.autocompleteHint = [items |-> <<>>, selected |-> -1]]
  ELSE showSuggestions(
         [S EXCEPT !.autocompleteFilterType = fm.filterType],
         IF fm.filterValue = <<>>
         THEN slice(sortStrings(filterValues(S.allResources, fm.filterType)), 10)
         ELSE slice(sortStrings(containing(filterValues(S.allResources, fm.filterType),
                                           fm.filterValue)), 8))

plainHint(S) == plainHintFor(S, filterMatch(S.inputValue))

updateAutocompleteHint(S) ==
  IF startsWith(S.inputValue, S_slash)
  THEN commandHint([S EXCEPT !.isCommandMode = TRUE])
  ELSE plainHint([S EXCEPT !.isCommandMode = FALSE,
                           !.activeCommand = None,
                           !.commandSearchQuery = <<>>])

(***************************************************************************)
(* Search, debounce, filters, close.                                       *)
(*                                                                         *)
(* searchDebounceTimer is the handle the palette holds (NULL or "timer");  *)
(* pendingTimers counts the debounce callbacks the browser still has       *)
(* scheduled.                                                              *)
(***************************************************************************)
performSearch(S) ==
  IF S.isCommandMode THEN S
  ELSE renderResults(
         [S EXCEPT !.results = searchResults(S.allResources, S.activeFilters, S.inputValue),
                   !.selectedIndex = 0])

clearDebounce(S) ==
  IF S.searchDebounceTimer # NULL
  THEN [S EXCEPT !.pendingTimers = max(@ - 1, 0)]
  ELSE S

setDebounce(S) ==
  [S EXCEPT !.searchDebounceTimer = "timer", !.pendingTimers = @ + 1]

\* a faulty handleInput that schedules a new timer without clearing the old one
handleInputNoClear(S) == setDebounce(updateAutocompleteHint(S))

handleInput(S) == setDebounce(clearDebounce(updateAutocompleteHint(S)))

\* a faulty close that keeps the active filters
closeKeepingFilters(S) ==
  [clearDebounce(S) EXCEPT !.searchDebounceTimer = NULL,
                           !.isOpen = FALSE,
                           !.inputValue = <<>>,
                           !.results = <<>>,
                           !.selectedIndex = 0]

close(S) ==
  [clearDebounce(S) EXCEPT !.searchDebounceTimer = NULL,
                           !.isOpen = FALSE,
                           !.inputValue = <<>>,
                           !.results = <<>>,
                           !.selectedIndex = 0,
                           !.activeFilters = <<>>]

\* a faulty addFilter that does not look for the pair among the active filters
addFilterUnchecked(S, type, value) ==
  updateAutocompleteHint(performSearch(
    [resetAutocomplete(S) EXCEPT !.activeFilters = Append(@, Filter(type, value)),
                                 !.inputValue = <<>>]))

addFilter(S, type, value) ==
  IF \E i \in 1..Len(S.activeFilters) : S.activeFilters[i] = Filter(type, value)
  THEN S
  ELSE updateAutocompleteHint(performSearch(
         [resetAutocomplete(S) EXCEPT !.activeFilters = Append(@, Filter(type, value)),
                                      !.inputValue = <<>>]))

removeFilter(S, type, value) ==
  performSearch(
    [S EXCEPT !.activeFilters = SelectSeq(@, LAMBDA f : f # Filter(type, value))])

alert(S, message) == [S EXCEPT !.lastAlert = message]

(***************************************************************************)
(* Requests to a cluster frame.  One record per call of                    *)
(* request...FromIframe: the promise, its message listener and its timer.  *)
(* cont names the code that awaits the promise.                            *)
(***************************************************************************)
ResponseType(kind) ==
  CASE kind = "get" -> "k-menu-resources-response"
    [] kind = "delete" -> "k-menu-delete-response"
    [] kind = "logs" -> "k-menu-logs-response"

RequestType(kind) ==
  CASE kind = "get" -> "k-menu-get-resources"
    [] kind = "delete" -> "k-menu-delete-resource"
    [] kind = "logs" -> "k-menu-open-logs"

Envelope(type, requestId, resource) ==
  [type |-> type, requestId |-> requestId, resource |-> resource,
   resources |-> None, error |-> FALSE, clusterId |-> NULL]

requestFromIframe(S, kind, iframe, requestId, resource, cont) ==
  [S EXCEPT
     !.requests = Append(@, [kind |-> kind, requestId |-> requestId, peer |-> iframe,
                             cont |-> cont, state |-> "pending", outcome |-> NULL,
                             listener |-> TRUE, timer |-> TRUE, cleanups |-> 0]),
     !.toIframe[iframe] = Append(@, Envelope(RequestType(kind), requestId, resource))]

\* a faulty cleanup that clears the timer and leaves the listener registered
cleanupTimerOnly(S, i) ==
  [S EXCEPT !.requests[i].timer = FALSE,
            !.requests[i].cleanups = min(@ + 1, 2)]

\* const cleanup = () => { clearTimeout(timeout); removeEventListener(..) }
cleanup(S, i) ==
  [S EXCEPT !.requests[i].timer = FALSE,
            !.requests[i].listener = FALSE,
            !.requests[i].cleanups = min(@ + 1, 2)]

\* resolve / reject of the promise: only the first call has an effect
settle(S, i, state, outcome) ==
  IF S.requests[i].state # "pending" THEN S
  ELSE [S EXCEPT !.requests[i].state = state, !.requests[i].outcome = outcome]

\* two faulty conditions: one does not look at the type, the other does not
\* look at the requestId
matchesIdOnly(request, data) == data.requestId = request.requestId

matchesTypeOnly(request, data) == data.type = ResponseType(request.kind)

\* the condition of messageHandler
messageMatches(request, data) ==
  /\ data.type = ResponseType(request.kind)
  /\ data.requestId = request.requestId

(***************************************************************************)
(* loadResourcesViaIPC, loadResources, refreshResources.                   *)
(***************************************************************************)
hideLoading(S) == [S EXCEPT !.loadingShown = FALSE]

\* the code after `await this.requestResourcesFromIframe(..)', the catch
\* block and the finally block
afterResources(S, ok, resources) ==
  hideLoading(handleInput(
    IF ok
    THEN [S EXCEPT !.allResources = resources,
                   !.resourceCache =
                      IF S.currentClusterId # NULL
                      THEN [@ EXCEPT ![S.currentClusterId] = Some(resources)]
                      ELSE @]
    ELSE [S EXCEPT !.allResources = <<>>]))

\* returns with the request pending, or finished when there is no frame
loadResourcesViaIPC(S, showLoading, requestId, cont) ==
  LET T == IF showLoading THEN [S EXCEPT !.loadingShown = TRUE] ELSE S
  IN IF T.activeIframeSource # NULL
     THEN requestFromIframe(T, "get", T.activeIframeSource, requestId, None, cont)
     ELSE afterResources(T, TRUE, <<>>)

hasCache(S) ==
  S.currentClusterId # NULL /\ S.resourceCache[S.currentClusterId] # None

\* contAfter names the code of the caller that runs when a request this
\* call awaits settles
loadResources(S, requestId, contAfter) ==
  IF S.activeIframeSource # NULL \/ S.currentClusterId # NULL
  THEN IF hasCache(S)
       THEN loadResourcesViaIPC(
              renderResults([S EXCEPT !.allResources = S.resourceCache[S.currentClusterId][1]]),
              FALSE, requestId, "background")
       ELSE loadResourcesViaIPC(S, TRUE, requestId, contAfter)
  ELSE handleInput([S EXCEPT !.allResources = <<>>])

\* TRUE when the call above left a request whose settlement the caller awaits
awaiting(S, T) ==
  /\ Len(T.requests) > Len(S.requests)
  /\ T.requests[Len(T.requests)].cont # "background"

\* the code after `await this.loadResources()': it runs at once unless the
\* call left a request to await
afterLoadResources(T, U) == IF awaiting(T, U) THEN U ELSE renderResults(U)

open(S, requestId) ==
  LET T == [S EXCEPT !.isOpen = TRUE, !.availableCommands = initializeCommands]
  IN IF T.activeIframeSource # NULL \/ T.currentClusterId # NULL
     THEN afterLoadResources(T, loadResources(T, requestId, "open"))
     ELSE renderResults([T EXCEPT !.allResources = <<>>])

toggle(S, requestId) == IF S.isOpen THEN close(S) ELSE open(S, requestId)

refreshResources(S, requestId, contAfter) ==
  IF S.currentClusterId # NULL
  THEN loadResources([S EXCEPT !.resourceCache[S.currentClusterId] = None],
                     requestId, contAfter)
  ELSE S

(***************************************************************************)
(* Command effects.  execute runs the synchronous part of a command's      *)
(* execute function (up to its first await that suspends); the caller      *)
(* then closes the palette and afterExecute runs what the microtask queue  *)
(* still holds.  env carries what the environment decides during the       *)
(* call: the answer to confirm(), whether Navigation.showDetails throws,   *)
(* and the next value of Math.random.                                      *)
(***************************************************************************)
Done(S, micro) == [S |-> S, micro |-> micro, threw |-> FALSE]

executeLogs(S, resource, env) ==
  IF resource # None /\ resource[1].kind = S_Pod
  THEN IF S.activeIframeSource = NULL THEN Done(S, "logsFailed")
       ELSE Done(requestFromIframe(S, "logs", S.activeIframeSource, env.requestId,
                                   resource, "logs"), NULL)
  ELSE Done(S, NULL)

executeDescribe(S, resource, env) ==
  IF resource # None /\ S.currentClusterId # NULL /\ ~env.navigationOk
  THEN [S |-> S, micro |-> NULL, threw |-> TRUE]
  ELSE Done(S, NULL)

\* a faulty delete command that never asks for confirmation
executeDeleteUnconfirmed(S, resource, env) ==
  IF resource # None
  THEN IF S.activeIframeSource = NULL THEN Done(S, "deleteFailed")
       ELSE Done(requestFromIframe(S, "delete", S.activeIframeSource, env.requestId,
                                   resource, "delete"), NULL)
  ELSE Done(S, NULL)

executeDelete(S, resource, env) ==
  IF resource # None /\ env.confirmed
  THEN IF S.activeIframeSource = NULL THEN Done(S, "deleteFailed")
       ELSE Done(requestFromIframe(S, "delete", S.activeIframeSource, env.requestId,
                                   resource, "delete"), NULL)
  ELSE Done(S, NULL)

\* the refresh command after `await this.refreshResources()'
afterRefreshResources(T, U) ==
  IF awaiting(T, U) THEN Done(U, NULL)
  ELSE IF T.currentClusterId # NULL THEN Done(U, "refreshRender")
  ELSE Done(U, "refreshDone")

executeRefresh(S, env) ==
  afterRefreshResources([S EXCEPT !.loadingShown = TRUE],
                        refreshResources([S EXCEPT !.loadingShown = TRUE],
                                         env.requestId, "refresh"))

execute(S, cmd, resource, env) ==
  CASE cmd.id = S_logs -> executeLogs(S, resource, env)
    [] cmd.id = S_describe -> executeDescribe(S, resource, env)
    [] cmd.id = S_delete -> executeDelete(S, resource, env)
    [] cmd.id = S_refresh -> executeRefresh(S, env)
    [] OTHER -> Done(S, NULL)

afterExecute(S, micro) ==
  CASE micro = "logsFailed" -> alert(S, "Failed to open logs")
    [] micro = "deleteFailed" -> alert(S, "Failed to delete")
    [] micro = "refreshRender" ->
         hideLoading(alert(renderResults(S), "Resources refreshed successfully"))
    [] micro = "refreshDone" -> hideLoading(alert(S, "Resources refreshed successfully"))
    [] OTHER -> S

\* a faulty check that accepts every kind
acceptsAnyKind(cmd, resource) == TRUE

acceptsKind(cmd, resource) ==
  cmd.resourceTypes = None
  \/ \E i \in 1..Len(cmd.resourceTypes[1]) : cmd.resourceTypes[1][i] = resource.kind

\* command.execute(..); this.close(): an exception thrown synchronously by
\* execute leaves the handler before close() is called
afterCommand(e) == IF e.threw THEN e.S ELSE afterExecute(close(e.S), e.micro)

executeCommandOnResource(S, resource, env) ==
  IF S.activeCommand = None THEN S
  ELSE IF ~acceptsKind(S.activeCommand[1], resource)
       THEN alert(S, "This command only works with other resources")
  ELSE afterCommand(execute(S, S.activeCommand[1], Some(resource), env))

\* a faulty executeCommand that runs the command without looking for a
\* selected resource
executeSelectedUnchecked(S, command, env) ==
  afterCommand(execute(S, command,
                       IF hasIndex(S.results, S.selectedIndex)
                       THEN Some(S.results[S.selectedIndex + 1].resource) ELSE None,
                       env))

executeSelected(S, command, env) ==
  IF command.requiresResource
  THEN IF ~hasIndex(S.results, S.selectedIndex)
       THEN handleInput([alert(S, "Please select a resource first")
                           EXCEPT !.inputValue = <<>>, !.isCommandMode = FALSE])
       ELSE IF ~acceptsKind(command, S.results[S.selectedIndex + 1].resource)
            THEN alert(S, "This command only works with other resources")
            ELSE afterCommand(execute(S, command,
                                      Some(S.results[S.selectedIndex + 1].resource), env))
  ELSE afterCommand(execute(S, command, None, env))

executeAt(S, filtered, index, env) ==
  IF ~hasIndex(filtered, index) THEN S
  ELSE executeSelected(S, filtered[index + 1], env)

executeCommand(S, index, env) ==
  executeAt(S, filteredCommands(S.availableCommands, S.inputValue), index, env)

navigateToResource(S, resource) ==
  IF S.currentClusterId = NULL \/ S.activeIframeSource = NULL THEN S
  ELSE [S EXCEPT !.toIframe[S.activeIframeSource] =
          Append(@, [Envelope("k-menu-navigate-to-resource", NULL, Some(resource))
                       EXCEPT !.clusterId = S.currentClusterId])]

selectResult(S, index) ==
  IF ~hasIndex(S.results, index) THEN S
  ELSE close(navigateToResource(S, S.results[index + 1].resource))

autocompleteFilterName(S) ==
  LET query == toLowerCase(S.inputValue)
      filterNames == <<S_kind \o <<":">>, S_namespace \o <<":">>, S_node \o <<":">> >>
      matches == SelectSeq(filterNames, LAMBDA name : startsWith(toLowerCase(name), query))
  IN IF includes(query, <<":">>) \/ matches = <<>> THEN S
     ELSE handleInput([S EXCEPT !.inputValue = matches[1]])

completeCommand(S, filtered) ==
  IF ~hasIndex(filtered, S.selectedCommandIndex) THEN S
  ELSE handleInput([S EXCEPT !.inputValue =
                      S_slash \o filtered[S.selectedCommandIndex + 1].label])

autocompleteCommand(S) ==
  completeCommand(S, filteredCommands(S.availableCommands, S.inputValue))

(***************************************************************************)
(* handleKeyDown.                                                          *)
(***************************************************************************)
Keys == {"Tab", "ArrowDown", "ArrowUp", "Enter", "Escape"}

\* the suggestion Enter would commit, None when the guard of the source fails
chosenSuggestion(S) ==
  IF /\ S.autocompleteSelectedIndex >= 0
     /\ S.autocompleteFilterType # NULL
     /\ hasIndex(S.autocompleteSuggestions, S.autocompleteSelectedIndex)
     /\ S.autocompleteSuggestions[S.autocompleteSelectedIndex + 1] # <<>>
  THEN Some(S.autocompleteSuggestions[S.autocompleteSelectedIndex + 1])
  ELSE None

\* this.input.value.match(/^\/(\w+)/)
commandPrefix(inputValue) ==
  LET w == wordRunLength(substring(inputValue, 1))
  IN IF startsWith(inputValue, S_slash) /\ w > 0
     THEN Some(SubSeq(inputValue, 1, w + 1)) ELSE None

leaveCommandMode(S) ==
  [S EXCEPT !.inputValue = <<>>, !.isCommandMode = FALSE,
            !.activeCommand = None, !.commandSearchQuery = <<>>]

\* Enter on a suggestion inside a command: the filter is added and the
\* buffer is reset to the command's name
keepCommand(T, prefix) ==
  IF prefix = None THEN T
  ELSE handleInput([resetAutocomplete(T) EXCEPT
                      !.inputValue = prefix[1] \o S_space,
                      !.commandSearchQuery = <<>>])

addChosen(S, chosen) ==
  IF chosen = None THEN S ELSE addFilter(S, S.autocompleteFilterType, chosen[1])

commandAutocompleteKey(S, key) ==
  CASE key \in {"Tab", "ArrowDown"} ->
         renderAutocompleteHint(
           [S EXCEPT !.autocompleteSelectedIndex =
              min(@ + 1, Len(S.autocompleteSuggestions) - 1)])
    [] key = "ArrowUp" ->
         renderAutocompleteHint([S EXCEPT !.autocompleteSelectedIndex = max(@ - 1, 0)])
    [] key = "Enter" ->
         IF chosenSuggestion(S) = None THEN S
         ELSE keepCommand(addChosen(S, chosenSuggestion(S)),
                          commandPrefix(addChosen(S, chosenSuggestion(S)).inputValue))
    [] key = "Escape" -> handleInput(resetAutocomplete(leaveCommandMode(S)))

commandResourceKey(S, key, env) ==
  CASE key = "Escape" -> handleInput(leaveCommandMode(S))
    [] key = "ArrowDown" ->
         renderCommandResourceList(
           [S EXCEPT !.selectedIndex = min(@ + 1, Len(S.results) - 1)])
    [] key = "ArrowUp" ->
         renderCommandResourceList([S EXCEPT !.selectedIndex = max(@ - 1, 0)])
    [] key = "Enter" ->
         IF hasIndex(S.results, S.selectedIndex)
         THEN executeCommandOnResource(S, S.results[S.selectedIndex + 1].resource, env)
         ELSE S

commandListKey(S, key, env) ==
  CASE key = "Tab" -> autocompleteCommand(S)
    [] key = "Escape" ->
         handleInput([S EXCEPT !.inputValue = <<>>, !.isCommandMode = FALSE])
    [] key = "ArrowDown" ->
         renderCommandList(
           [S EXCEPT !.selectedCommandIndex = min(@ + 1, Len(S.availableCommands) - 1)])
    [] key = "ArrowUp" ->
         renderCommandList([S EXCEPT !.selectedCommandIndex = max(@ - 1, 0)])
    [] key = "Enter" -> executeCommand(S, S.selectedCommandIndex, env)

normalKey(S, key) ==
  CASE key = "Tab" -> autocompleteFilterName(S)
    [] key = "Escape" -> close(S)
    [] key = "ArrowDown" ->
         renderResults([S EXCEPT !.selectedIndex = min(@ + 1, Len(S.results) - 1)])
    [] key = "ArrowUp" -> renderResults([S EXCEPT !.selectedIndex = max(@ - 1, 0)])
    [] key = "Enter" -> selectResult(S, S.selectedIndex)

suggestionKey(S, key) ==
  CASE key = "Tab" ->
         renderAutocompleteHint(
           [S EXCEPT !.autocompleteSelectedIndex =
              (@ + 1) % Len(S.autocompleteSuggestions)])
    [] key = "Enter" -> addChosen(S, chosenSuggestion(S))
    [] key = "Escape" -> close(S)

plainKey(S, key) ==
  IF S.autocompleteSuggestions # <<>> /\ key \in {"Tab", "Enter", "Escape"}
  THEN suggestionKey(S, key)
  ELSE normalKey(S, key)

handleKeyDown(S, key, env) ==
  IF S.isCommandMode /\ S.autocompleteFilterType # NULL /\ S.autocompleteSuggestions # <<>>
  THEN commandAutocompleteKey(S, key)
  ELSE IF S.isCommandMode /\ S.activeCommand # None /\ S.commandSearchQuery # <<>>
          /\ key # "Tab"
       THEN commandResourceKey(S, key, env)
  ELSE IF S.isCommandMode /\ ~(S.activeCommand # None /\ S.commandSearchQuery # <<>>)
       THEN commandListKey(S, key, env)
  ELSE plainKey(S, key)

(***************************************************************************)
(* Settlement of a request and the code that awaits it.                    *)
(***************************************************************************)
\* what follows `await this.loadResourcesViaIPC(..)' in the caller
afterLoaded(T, cont) ==
  CASE cont = "background" -> T
    [] cont \in {"open", "afterDelete"} -> renderResults(T)
    [] cont = "refresh" ->
         hideLoading(alert(renderResults(T), "Resources refreshed successfully"))

\* deleteResource after `await this.refreshResources()'
afterDeleteRefresh(A, T) ==
  IF A.currentClusterId # NULL /\ ~awaiting(A, T) THEN renderResults(T) ELSE T

continuation(S, i, ok, value, env) ==
  CASE S.requests[i].cont \in {"background", "open", "afterDelete", "refresh"} ->
         afterLoaded(afterResources(S, ok, value), S.requests[i].cont)
    [] S.requests[i].cont = "delete" ->
         IF ok
         THEN afterDeleteRefresh(
                alert(S, "Successfully deleted"),
                refreshResources(alert(S, "Successfully deleted"),
                                 env.requestId, "afterDelete"))
         ELSE alert(S, "Failed to delete")
    [] S.requests[i].cont = "logs" -> IF ok THEN S ELSE alert(S, "Failed to open logs")

resolve(S, i, value, env) ==
  IF S.requests[i].state # "pending" THEN S
  ELSE continuation(settle(S, i, "resolved", "response"), i, TRUE, value, env)

reject(S, i, outcome, env) ==
  IF S.requests[i].state # "pending" THEN S
  ELSE continuation(settle(S, i, "rejected", outcome), i, FALSE, <<>>, env)

\* messageHandler of request i, called with the event's data
messageHandler(S, i, data, env) ==
  IF messageMatches(S.requests[i], data)
  THEN IF data.error THEN reject(cleanup(S, i), i, "error", env)
       ELSE resolve(cleanup(S, i), i,
                    IF data.resources = None THEN <<>> ELSE data.resources[1], env)
  ELSE S

\* a faulty timer callback that cleans up and never rejects
onTimeoutSilent(S, i, env) == cleanup(S, i)

\* the timer callback of request i
onTimeout(S, i, env) == reject(cleanup(S, i), i, "timeout", env)

\* the listener registered by setupMessageListener
onToggleMessage(S, data, source, env) ==
  IF data.type = "k-menu-toggle"
  THEN toggle([S EXCEPT !.activeIframeSource = source,
                        !.currentClusterId =
                           IF data.clusterId # NULL THEN data.clusterId ELSE @],
              env.requestId)
  ELSE S

\* the request listeners that were registered when the event was dispatched,
\* called in registration order; a listener removed meanwhile is skipped
RECURSIVE callListeners(_, _, _, _, _)
callListeners(S, data, i, n, env) ==
  IF i > n THEN S
  ELSE callListeners(
         IF S.requests[i].listener THEN messageHandler(S, i, data, env) ELSE S,
         data, i + 1, n, env)

\* a message event on the main window
dispatchMessage(S, data, source, env) ==
  callListeners(onToggleMessage(S, data, source, env), data, 1, Len(S.requests), env)

(***************************************************************************)
(* The message handler of a cluster frame (setupIframeKeyboardForwarder).  *)
(***************************************************************************)
RequestTypes == {RequestType(k) : k \in {"get", "delete", "logs"}}

ResponseTypeOf(type) ==
  CASE type = "k-menu-get-resources" -> "k-menu-resources-response"
    [] type = "k-menu-delete-resource" -> "k-menu-delete-response"
    [] type = "k-menu-open-logs" -> "k-menu-logs-response"

\* the envelope posted from the try block (ok) or from the catch block
responseOf(data, ok, listing) ==
  [type |-> ResponseTypeOf(data.type), requestId |-> data.requestId,
   resource |-> None,
   resources |-> IF ok /\ data.type = "k-menu-get-resources" THEN Some(listing) ELSE None,
   error |-> ~ok, clusterId |-> NULL]

\* the handler starts: a request type suspends at its first await, anything
\* else (navigation included) finishes without a reply
iframeOnMessage(S, w) ==
  LET data == Head(S.toIframe[w])
      T == [S EXCEPT !.toIframe[w] = Tail(@)]
  IN IF data.type \in RequestTypes
     THEN [T EXCEPT !.handlers[w] = Append(@, data)]
     ELSE T

\* LogsService.openPodLogs rejects anything that is not a Pod
capabilityMayPass(data) ==
  data.type = "k-menu-open-logs" => (data.resource # None /\ data.resource[1].kind = S_Pod)

removeAt(a, i) == SubSeq(a, 1, i - 1) \o SubSeq(a, i + 1, Len(a))

\* a faulty handler whose catch block logs the error and posts nothing
iframeRespondOnSuccess(S, w, i, ok, listing) ==
  IF ok
  THEN [S EXCEPT !.handlers[w] = removeAt(@, i),
                 !.toMain[w] = Append(@, responseOf(S.handlers[w][i], ok, listing))]
  ELSE [S EXCEPT !.handlers[w] = removeAt(@, i)]

\* the awaited capability of handler i returns (ok) or throws
iframeRespond(S, w, i, ok, listing) ==
  [S EXCEPT !.handlers[w] = removeAt(@, i),
            !.toMain[w] = Append(@, responseOf(S.handlers[w][i], ok, listing))]

(***************************************************************************)
(* State.                                                                  *)
(***************************************************************************)
VARIABLES
  \* fields of KMenuPalette
  isOpen, selectedIndex, results, allResources, activeFilters,
  autocompleteSuggestions, autocompleteSelectedIndex, autocompleteFilterType,
  isCommandMode, availableCommands, selectedCommandIndex, activeCommand,
  commandSearchQuery, resourceCache, currentClusterId, searchDebounceTimer,
  activeIframeSource,
  \* the DOM: input.value, the loading indicator, resultsList, the hint strip
  inputValue, loadingShown, resultsList, autocompleteHint,
  \* the browser: scheduled debounce callbacks, the last alert() shown
  pendingTimers, lastAlert,
  \* promises, listeners and timers of request...FromIframe
  requests,
  \* message events queued for each cluster frame and, per source frame,
  \* for the main window; the handlers running inside each frame
  toIframe, toMain, handlers,
  \* envelopes posted so far by anything else, user events so far
  foreign, events,
  \* per cluster frame, the host's namespacesStore.selectedNamespaces (empty:
  \* all namespaces, implicitly) and what it held when no listing was running
  namespaceStore, selectionBefore

vars ==
  <<isOpen, selectedIndex, results, allResources, activeFilters,
    autocompleteSuggestions, autocompleteSelectedIndex, autocompleteFilterType,
    isCommandMode, availableCommands, selectedCommandIndex, activeCommand,
    commandSearchQuery, resourceCache, currentClusterId, searchDebounceTimer,
    activeIframeSource, inputValue, loadingShown, resultsList, autocompleteHint,
    pendingTimers, lastAlert, requests, toIframe, toMain, handlers, foreign, events,
    namespaceStore, selectionBefore>>

\* the state as one record, the form the operators above work on
St ==
  [isOpen |-> isOpen, selectedIndex |-> selectedIndex, results |-> results,
   allResources |-> allResources, activeFilters |-> activeFilters,
   autocompleteSuggestions |-> autocompleteSuggestions,
   autocompleteSelectedIndex |-> autocompleteSelectedIndex,
   autocompleteFilterType |-> autocompleteFilterType,
   isCommandMode |-> isCommandMode, availableCommands |-> availableCommands,
   selectedCommandIndex |-> selectedCommandIndex, activeCommand |-> activeCommand,
   commandSearchQuery |-> commandSearchQuery, resourceCache |-> resourceCache,
   currentClusterId |-> currentClusterId, searchDebounceTimer |-> searchDebounceTimer,
   activeIframeSource |-> activeIframeSource, inputValue |-> inputValue,
   loadingShown |-> loadingShown, resultsList |-> resultsList,
   autocompleteHint |-> autocompleteHint, pendingTimers |-> pendingTimers,
   lastAlert |-> lastAlert, requests |-> requests, toIframe |-> toIframe,
   toMain |-> toMain, handlers |-> handlers, foreign |-> foreign, events |-> events]

\* the state in which the user is about to act
User == [St EXCEPT !.events = @ + 1]

\* the step that leaves the palette, the queues and the handlers as in S
Assigns(S) ==
  /\ Len(S.requests) <= MaxRequests
  /\ isOpen' = S.isOpen
  /\ selectedIndex' = S.selectedIndex
  /\ results' = S.results
  /\ allResources' = S.allResources
  /\ activeFilters' = S.activeFilters
  /\ autocompleteSuggestions' = S.autocompleteSuggestions
  /\ autocompleteSelectedIndex' = S.autocompleteSelectedIndex
  /\ autocompleteFilterType' = S.autocompleteFilterType
  /\ isCommandMode' = S.isCommandMode
  /\ availableCommands' = S.availableCommands
  /\ selectedCommandIndex' = S.selectedCommandIndex
  /\ activeCommand' = S.activeCommand
  /\ commandSearchQuery' = S.commandSearchQuery
  /\ resourceCache' = S.resourceCache
  /\ currentClusterId' = S.currentClusterId
  /\ searchDebounceTimer' = S.searchDebounceTimer
  /\ activeIframeSource' = S.activeIframeSource
  /\ inputValue' = S.inputValue
  /\ loadingShown' = S.loadingShown
  /\ resultsList' = S.resultsList
  /\ autocompleteHint' = S.autocompleteHint
  /\ pendingTimers' = S.pendingTimers
  /\ lastAlert' = S.lastAlert
  /\ requests' = S.requests
  /\ toIframe' = S.toIframe
  /\ toMain' = S.toMain
  /\ handlers' = S.handlers
  /\ foreign' = S.foreign
  /\ events' = S.events

\* the step that leaves the state S behind and the host's selection alone
Becomes(S) == Assigns(S) /\ UNCHANGED <<namespaceStore, selectionBefore>>

\* the state the constructor leaves
PaletteInit ==
  /\ isOpen = FALSE
  /\ selectedIndex = 0
  /\ results = <<>>
  /\ allResources = <<>>
  /\ activeFilters = <<>>
  /\ autocompleteSuggestions = <<>>
  /\ autocompleteSelectedIndex = -1
  /\ autocompleteFilterType = NULL
  /\ isCommandMode = FALSE
  /\ availableCommands = <<>>
  /\ selectedCommandIndex = 0
  /\ activeCommand = None
  /\ commandSearchQuery = <<>>
  /\ resourceCache = [c \in Clusters |-> None]
  /\ currentClusterId = NULL
  /\ searchDebounceTimer = NULL
  /\ activeIframeSource = NULL
  /\ inputValue = <<>>
  /\ loadingShown = FALSE
  /\ resultsList = View("blank", "", <<>>, -1)
  /\ autocompleteHint = [items |-> <<>>, selected |-> -1]
  /\ pendingTimers = 0
  /\ lastAlert = NULL
  /\ requests = <<>>
  /\ toIframe = [w \in Peers |-> <<>>]
  /\ toMain = [w \in Peers |-> <<>>]
  /\ handlers = [w \in Peers |-> <<>>]
  /\ foreign = 0
  /\ events = 0

\* every cluster frame shows all namespaces
Init ==
  /\ PaletteInit
  /\ namespaceStore = [w \in Peers |-> <<>>]
  /\ selectionBefore = [w \in Peers |-> <<>>]

\* what the environment decides during one handler
Envs ==
  [confirmed : BOOLEAN, navigationOk : BOOLEAN, requestId : RequestIds]

RandomIds == [confirmed : {TRUE}, navigationOk : {TRUE}, requestId : RequestIds]

(***************************************************************************)
(* Actions of the main window.                                             *)
(***************************************************************************)
\* the shortcut pressed while the main window has the focus
MainShortcut ==
  /\ events < MaxEvents
  /\ \E env \in RandomIds : Becomes(toggle(User, env.requestId))

\* the `input' event: the buffer now reads value
Input(value) ==
  /\ isOpen
  /\ events < MaxEvents
  /\ value # inputValue
  /\ Becomes(handleInput([User EXCEPT !.inputValue = value]))

KeyDown(key) ==
  /\ isOpen
  /\ events < MaxEvents
  /\ \E env \in Envs : Becomes(handleKeyDown(User, key, env))

BackdropClick ==
  /\ isOpen
  /\ events < MaxEvents
  /\ Becomes(close(User))

\* the debounce callback
DebounceFire ==
  /\ pendingTimers > 0
  /\ Becomes([performSearch(St) EXCEPT !.searchDebounceTimer = NULL,
                                       !.pendingTimers = @ - 1])

\* the blur handler finds a cluster frame focused
IframeFocus(w) ==
  /\ events < MaxEvents
  /\ Becomes([User EXCEPT !.activeIframeSource = w, !.currentClusterId = ClusterOf(w)])

\* the next message event from frame w
Deliver(w) ==
  /\ toMain[w] # <<>>
  /\ \E env \in RandomIds :
       Becomes(dispatchMessage([St EXCEPT !.toMain[w] = Tail(@)],
                               Head(toMain[w]), w, env))

\* the 10 s timer of request i
Timeout(i) ==
  /\ i \in 1..Len(requests)
  /\ requests[i].timer
  /\ \E env \in RandomIds : Becomes(onTimeout(St, i, env))

\* an envelope that no handler of this program posted
ForeignTypes ==
  {"k-menu-resources-response", "k-menu-delete-response", "k-menu-logs-response",
   "something-else"}

ForeignEnvelopes ==
  [type : ForeignTypes, requestId : RequestIds, resource : {None},
   resources : {None}, error : BOOLEAN, clusterId : {NULL}]

ForeignToMain(data, source) ==
  /\ foreign < MaxForeign
  /\ \E env \in RandomIds :
       Becomes(dispatchMessage([St EXCEPT !.foreign = @ + 1], data, source, env))

(***************************************************************************)
(* Actions of a cluster frame.                                             *)
(***************************************************************************)
\* the shortcut pressed inside frame w
IframeShortcut(w) ==
  /\ events < MaxEvents
  /\ Becomes([User EXCEPT !.toMain[w] =
                Append(@, [Envelope("k-menu-toggle", NULL, None)
                             EXCEPT !.clusterId = ClusterOf(w)])])

IframeReceive(w) ==
  /\ toIframe[w] # <<>>
  /\ Becomes(iframeOnMessage(St, w))

IframeRespond(w, i) ==
  /\ i \in 1..Len(handlers[w])
  /\ \E ok \in BOOLEAN, listing \in ListingsOf(w) :
       /\ ok => capabilityMayPass(handlers[w][i])
       /\ Becomes(iframeRespond(St, w, i, ok, listing))

\* an envelope that is no request: every branch of the frame's handler
\* passes it by
ForeignToIframe(w, data) ==
  /\ foreign < MaxForeign
  /\ Becomes(iframeOnMessage([St EXCEPT !.foreign = @ + 1,
                                        !.toIframe[w] = <<data>> \o @], w))

Next ==
  \/ MainShortcut
  \/ \E value \in Buffers : Input(value)
  \/ \E key \in Keys : KeyDown(key)
  \/ BackdropClick
  \/ DebounceFire
  \/ \E w \in Peers : IframeFocus(w)
  \/ \E w \in Peers : Deliver(w)
  \/ \E i \in 1..MaxRequests : Timeout(i)
  \/ \E data \in ForeignEnvelopes, w \in Peers : ForeignToMain(data, w)
  \/ \E w \in Peers : IframeShortcut(w)
  \/ \E w \in Peers : IframeReceive(w)
  \/ \E w \in Peers, i \in 1..MaxRequests : IframeRespond(w, i)
  \/ \E w \in Peers, data \in ForeignEnvelopes : ForeignToIframe(w, data)

Spec == Init /\ [][Next]_vars

(***************************************************************************)
(* A second specification for the liveness properties: the browser fires   *)
(* every armed timer (setTimeout in request...FromIframe), whatever the    *)
(* frames do.  No fairness is assumed of the frames' handlers.             *)
(*                                                                         *)
(* TimerFires(i) describes the step Timeout(i) by what the timer callback  *)
(* does to the records of the requests: cleanup(), then reject(..).        *)
(***************************************************************************)
TimerFires(i) ==
  /\ i \in 1..Len(requests)
  /\ requests[i].timer
  /\ requests' = settle(cleanup(St, i), i, "rejected", "timeout").requests

FairSpec == Spec /\ \A i \in 1..MaxRequests : WF_requests(TimerFires(i))

(***************************************************************************)
(* Properties of the request channel.                                      *)
(***************************************************************************)
pending(r) == r.state = "pending"

\* the envelopes that are no request and no toggle: the three response
\* types and one type outside the protocol
ProbeTypes ==
  {"k-menu-resources-response", "k-menu-delete-response", "k-menu-logs-response",
   "something-else"}

ProbeEnvelopes ==
  [type : ProbeTypes, requestId : RequestIds, resource : {None},
   resources : {None}, error : BOOLEAN, clusterId : {NULL}]

\* the two responses a frame can give to request r
ResponsesTo(r) ==
  {[Envelope(ResponseType(r.kind), r.requestId, None) EXCEPT !.error = e] : e \in BOOLEAN}

\* the record of a request agrees with its promise: pending with listener
\* and timer armed and no cleanup run, or settled with both gone after one
\* cleanup
C1_Consistent(r) ==
  /\ r.cleanups <= 1
  /\ r.state \in {"pending", "resolved", "rejected"}
  /\ r.state = "pending" => r.listener /\ r.timer /\ r.cleanups = 0 /\ r.outcome = NULL
  /\ r.state = "resolved" =>
       ~r.listener /\ ~r.timer /\ r.cleanups = 1 /\ r.outcome = "response"
  /\ r.state = "rejected" =>
       ~r.listener /\ ~r.timer /\ r.cleanups = 1 /\ r.outcome \in {"error", "timeout"}

\* a response to the settled request r, handed to the main window when no
\* pending request shares r's type and id, changes nothing
C1_LateResponseIgnored(r) ==
  \A data \in ResponsesTo(r), source \in Peers, env \in RandomIds :
     (\A j \in 1..Len(requests) : pending(requests[j]) => ~messageMatches(requests[j], data))
     => dispatchMessage(St, data, source, env) = St

\* C1: every request settles at most once, by a matching response, a
\* matching error response or its timer; on each path its listener is
\* removed and its timer cleared by exactly one run of cleanup; once it is
\* settled its record never changes again and a late matching response
\* leaves the whole state as it is.
C1_SettlesOnce ==
  /\ [](\A i \in 1..Len(requests) :
          /\ C1_Consistent(requests[i])
          /\ ~pending(requests[i]) => C1_LateResponseIgnored(requests[i]))
  /\ [][\A i \in 1..Len(requests) :
          ~pending(requests[i]) => requests'[i] = requests[i]]_vars

\* a request has timed out and the frame's response to it is on its way
C1_Witness ==
  \E i \in 1..Len(requests), w \in Peers : \E j \in 1..Len(toMain[w]) :
     /\ requests[i].outcome = "timeout"
     /\ messageMatches(requests[i], toMain[w][j])

\* C2: under FairSpec every request that is issued is eventually settled
\* with its listener removed, whether or not the frame ever responds; so no
\* listener of a request stays registered forever.
C2_EventuallySettled ==
  \A i \in 1..MaxRequests :
     (Len(requests) >= i)
       ~> (Len(requests) >= i /\ ~pending(requests[i]) /\ ~requests[i].listener)

\* two requests have timed out and no request listener is registered
C2_Witness ==
  /\ \E i, j \in 1..Len(requests) :
        i # j /\ requests[i].outcome = "timeout" /\ requests[j].outcome = "timeout"
  /\ \A i \in 1..Len(requests) : ~requests[i].listener

\* C3: handing the main window any envelope changes the record of a request
\* only if the request is pending, the envelope's type is the request's
\* response type and the ids are equal; an envelope that matches no pending
\* request leaves the whole state unchanged (so nothing is posted); and a
\* frame handed an envelope that is no request starts no handler and posts
\* no reply.
C3_OnlyMatching ==
  /\ \A data \in ProbeEnvelopes, source \in Peers, env \in RandomIds :
       LET T == dispatchMessage(St, data, source, env)
       IN /\ \A i \in 1..Len(requests) :
               T.requests[i] # requests[i]
               => /\ pending(requests[i])
                  /\ data.type = ResponseType(requests[i].kind)
                  /\ data.requestId = requests[i].requestId
          /\ (\A i \in 1..Len(requests) :
                pending(requests[i]) =>
                   \/ data.type # ResponseType(requests[i].kind)
                   \/ data.requestId # requests[i].requestId)
             => T = St
  /\ \A data \in ProbeEnvelopes, w \in Peers :
       iframeOnMessage([St EXCEPT !.toIframe[w] = <<data>> \o @], w) = St

\* a delete request is pending next to a settled get request with the same
\* id: the ids are equal and only the types tell the two apart
C3_Witness ==
  \E i, j \in 1..Len(requests) :
     /\ requests[i].requestId = requests[j].requestId
     /\ requests[i].kind = "get" /\ requests[i].outcome = "response"
     /\ requests[j].kind # "get" /\ pending(requests[j])

\* C4: in a step that settles request b by a response while an earlier
\* request a with another id is pending, the record of a (state, listener,
\* timer) does not change.
C4_Independent ==
  [][\A a, b \in 1..Len(requests) :
       (/\ a < b
        /\ pending(requests[a]) /\ pending(requests[b])
        /\ requests[a].requestId # requests[b].requestId
        /\ requests'[b].outcome \in {"response", "error"})
       => requests'[a] = requests[a]]_vars

\* the later of two requests of one kind has been answered, the earlier is
\* still pending
C4_Witness ==
  \E a, b \in 1..Len(requests) :
     /\ a < b
     /\ requests[a].kind = requests[b].kind
     /\ requests[a].requestId # requests[b].requestId
     /\ pending(requests[a]) /\ requests[a].listener /\ requests[a].timer
     /\ requests[b].outcome = "response"

\* C5: whenever the awaited capability of a frame's handler returns or
\* throws, the handler ends with exactly one envelope appended to the
\* frame's outgoing messages: its type is the response type of the request,
\* its requestId is the request's, and it carries an error exactly when the
\* capability threw; and every request envelope a frame receives starts
\* such a handler.
C5_OneResponse ==
  \A w \in Peers :
    /\ \A i \in 1..Len(handlers[w]), ok \in BOOLEAN, listing \in ListingsOf(w) :
         LET T == iframeRespond(St, w, i, ok, listing)
         IN /\ T.toMain[w] # <<>>
            /\ T.toMain[w] =
                 Append(toMain[w],
                        [T.toMain[w][Len(T.toMain[w])] EXCEPT
                           !.type = ResponseTypeOf(handlers[w][i].type),
                           !.requestId = handlers[w][i].requestId,
                           !.error = ~ok])
            /\ T.handlers[w] = removeAt(handlers[w], i)
            /\ \A v \in Peers \ {w} : T.toMain[v] = toMain[v]
    /\ (toIframe[w] # <<>> /\ Head(toIframe[w]).type \in RequestTypes)
       => iframeOnMessage(St, w).handlers[w] = Append(handlers[w], Head(toIframe[w]))

\* a frame has answered a delete or logs request with an error
C5_Witness ==
  \E w \in Peers : \E j \in 1..Len(toMain[w]) :
     /\ toMain[w][j].type \in {"k-menu-delete-response", "k-menu-logs-response"}
     /\ toMain[w][j].error

(***************************************************************************)
(* Properties of the resource cache and of the palette's life cycle.       *)
(***************************************************************************)
\* C6: the cache entry of cluster c is set only in a step in which a get
\* request that was sent to the frame of c is resolved, and the value set
\* is the list that was cached from that response (the working set).
C6_CacheFromOwnPeer ==
  [][\A c \in Clusters :
       (resourceCache'[c] # resourceCache[c] /\ resourceCache'[c] # None)
       => /\ \E i \in 1..Len(requests) :
               /\ requests[i].kind = "get"
               /\ pending(requests[i]) /\ requests'[i].state = "resolved"
               /\ ClusterOf(requests[i].peer) = c
          /\ resourceCache'[c] = Some(allResources')]_vars

\* C7: in a step in which a get request is rejected (error response or
\* timeout) no cache entry changes, and when the request was the background
\* refresh of an open on a cache hit the working set stays what it was.
C7_FailureKeepsSnapshot ==
  [][\A i \in 1..Len(requests) :
       (/\ requests[i].kind = "get"
        /\ pending(requests[i]) /\ requests'[i].state = "rejected")
       => /\ resourceCache' = resourceCache
          /\ requests[i].cont = "background" => allResources' = allResources]_vars

\* C8: the step that opens the palette while the cache holds an entry for
\* the cluster it opens on ends with the working set equal to the cached
\* list, the cached resources (up to the cap) on display, no loading
\* indicator, and exactly one new request, a get request nobody awaits.
C8_OpenOnCacheHit ==
  [][(/\ ~isOpen /\ isOpen'
      /\ currentClusterId' # NULL
      /\ resourceCache[currentClusterId'] # None)
     => /\ allResources' = resourceCache[currentClusterId'][1]
        /\ resultsList'.items = slice(resourceCache[currentClusterId'][1], RESULT_LIMIT)
        /\ ~loadingShown'
        /\ Len(requests') = Len(requests) + 1
        /\ requests'[Len(requests')].kind = "get"
        /\ requests'[Len(requests')].cont = "background"
        /\ pending(requests'[Len(requests')])]_vars

\* C9: while a get request that was sent on a cache miss is pending the
\* loading indicator is shown.
C9_LoadingWhilePending ==
  \A i \in 1..Len(requests) :
     (requests[i].kind = "get" /\ requests[i].cont # "background" /\ pending(requests[i]))
     => loadingShown

\* C10: while the palette is closed the result list is empty, the selected
\* index is 0 and no debounce timer is pending.
C10_ClosedIsQuiet ==
  ~isOpen => /\ results = <<>>
             /\ selectedIndex = 0
             /\ searchDebounceTimer = NULL
             /\ pendingTimers = 0

(***************************************************************************)
(* Properties of command execution and of the keyboard.                    *)
(***************************************************************************)
\* the envelopes a handler of the main window posted to frame w while it
\* took the state from S to T
sent(S, T, w) == SubSeq(T.toIframe[w], Len(S.toIframe[w]) + 1, Len(T.toIframe[w]))

typed(envelopes, type) == SelectSeq(envelopes, LAMBDA e : e.type = type)

declined(env) == [env EXCEPT !.confirmed = FALSE]

\* C11: a key press posts a delete-resource envelope only when confirm()
\* answered true during that key press, and the envelope then names the
\* highlighted resource; had the user declined, the same key press would
\* post nothing, issue no request, leave every cache entry and show no
\* alert.  A delete handler runs in a frame only for a delete request of the
\* palette, and only a step that executes a command (it closes the palette)
\* posts a delete-resource envelope.
C11_DeleteAfterConfirmation ==
  /\ [](isOpen =>
         \A key \in Keys, env \in RandomIds :
            LET yes == handleKeyDown(St, key, env)
                no == handleKeyDown(St, key, declined(env))
            IN /\ \A w \in Peers : typed(sent(St, no, w), "k-menu-delete-resource") = <<>>
               /\ \A w \in Peers :
                    typed(sent(St, yes, w), "k-menu-delete-resource") # <<>>
                    => /\ hasIndex(results, selectedIndex)
                       /\ sent(St, yes, w) =
                            <<Envelope("k-menu-delete-resource", env.requestId,
                                       Some(results[selectedIndex + 1].resource))>>
                       /\ no.toIframe = toIframe
                       /\ no.requests = requests
                       /\ no.resourceCache = resourceCache
                       /\ no.lastAlert = lastAlert)
  /\ [](\A w \in Peers : \A i \in 1..Len(handlers[w]) :
          handlers[w][i].type = "k-menu-delete-resource"
          => \E j \in 1..Len(requests) :
                /\ requests[j].kind = "delete"
                /\ requests[j].peer = w
                /\ requests[j].requestId = handlers[w][i].requestId)
  /\ [][\A w \in Peers :
          (/\ Len(toIframe'[w]) = Len(toIframe[w]) + 1
           /\ toIframe'[w][Len(toIframe'[w])].type = "k-menu-delete-resource")
          => isOpen /\ ~isOpen']_vars

\* a frame is running the delete capability for a request of the palette
C11_Witness ==
  \E w \in Peers : \E i \in 1..Len(handlers[w]) :
     /\ handlers[w][i].type = "k-menu-delete-resource"
     /\ handlers[w][i].resource # None
     /\ ~isOpen

\* the three branches of handleKeyDown in command mode
inCommandAutocomplete(S) ==
  S.isCommandMode /\ S.autocompleteFilterType # NULL /\ S.autocompleteSuggestions # <<>>

inCommandResourceSelect(S) ==
  /\ S.isCommandMode /\ ~inCommandAutocomplete(S)
  /\ S.activeCommand # None /\ S.commandSearchQuery # <<>>

inCommandList(S) ==
  /\ S.isCommandMode /\ ~inCommandAutocomplete(S)
  /\ ~(S.activeCommand # None /\ S.commandSearchQuery # <<>>)

\* the command Enter would execute from the command list, None when the
\* highlighted index names no command
enteredCommand(S) ==
  IF hasIndex(filteredCommands(S.availableCommands, S.inputValue), S.selectedCommandIndex)
  THEN Some(filteredCommands(S.availableCommands, S.inputValue)[S.selectedCommandIndex + 1])
  ELSE None

\* C12: Enter on a command that requires a resource, pressed while no
\* resource is selected, posts no envelope, issues no request, does not run
\* the command (the palette stays open, the cache is left alone) and leaves
\* a message for the user: the alert of executeCommand from the command
\* list, the line of the empty list in resource selection.
C12_NoResourceNoEffect ==
  (isOpen /\ ~hasIndex(results, selectedIndex)) =>
    \A env \in Envs :
       LET T == handleKeyDown(St, "Enter", env)
       IN /\ (/\ inCommandList(St)
              /\ enteredCommand(St) # None
              /\ enteredCommand(St)[1].requiresResource)
             => /\ T.toIframe = toIframe
                /\ T.requests = requests
                /\ T.resourceCache = resourceCache
                /\ T.isOpen
                /\ T.lastAlert = "Please select a resource first"
          /\ inCommandResourceSelect(St)
             => /\ T = St
                /\ resultsList.kind = "empty"

\* the alert of executeCommand is on display and the palette is still open
C12_Witness ==
  /\ isOpen
  /\ lastAlert = "Please select a resource first"
  /\ requests = <<>>

\* the alert state of a kind mismatch: nothing but the alert differs from S
rejected(S) == [S EXCEPT !.lastAlert = "This command only works with other resources"]

\* the resources a list of the palette can hold
Resources == {PodA, PodB, ServiceA}

\* cmd declares resourceTypes and the kind of r is none of them
outsideTypes(cmd, r) ==
  /\ cmd.resourceTypes # None
  /\ \A i \in 1..Len(cmd.resourceTypes[1]) : cmd.resourceTypes[1][i] # r.kind

\* C13: Enter on a command that declares resourceTypes, with a highlighted
\* resource of another kind, only shows the rejection alert, from the
\* command list as from resource selection; executeCommandOnResource does
\* the same for every resource it may be called with; and Enter in command
\* mode posts an open-logs envelope (the one command with resourceTypes) for
\* a Pod only.
C13_KindMismatchRejected ==
  isOpen =>
    \A env \in Envs :
       LET T == handleKeyDown(St, "Enter", env)
       IN /\ (/\ inCommandList(St)
              /\ enteredCommand(St) # None
              /\ enteredCommand(St)[1].requiresResource
              /\ hasIndex(results, selectedIndex)
              /\ outsideTypes(enteredCommand(St)[1], results[selectedIndex + 1].resource))
             => T = rejected(St)
          /\ (/\ inCommandResourceSelect(St)
              /\ hasIndex(results, selectedIndex)
              /\ outsideTypes(activeCommand[1], results[selectedIndex + 1].resource))
             => T = rejected(St)
          /\ \A r \in Resources :
               (activeCommand # None /\ outsideTypes(activeCommand[1], r))
               => executeCommandOnResource(St, r, env) = rejected(St)
          /\ isCommandMode =>
               \A w \in Peers : \A i \in 1..Len(sent(St, T, w)) :
                  sent(St, T, w)[i].type = "k-menu-open-logs"
                  => sent(St, T, w)[i].resource[1].kind = S_Pod

\* the rejection alert is on display, the palette is open on a command
\* buffer and the highlighted resource is not a Pod
C13_Witness ==
  /\ isOpen /\ isCommandMode
  /\ lastAlert = "This command only works with other resources"
  /\ hasIndex(results, selectedIndex)
  /\ results[selectedIndex + 1].resource.kind # S_Pod

\* one more edit of the input field, as the handler of Input makes it
typing(S, value) == handleInput([S EXCEPT !.inputValue = value])

S_describeA == <<"/", "d", "e", "s", "c", "r", "i", "b", "e", " ", "a">>

\* the open states one edit of the input field away from S, S included
edited(S, values) == {S} \union {typing(S, b) : b \in values \ {S.inputValue}}

\* Enter in S calls the execute function of a command
invokes(S) ==
  \/ /\ inCommandList(S)
     /\ enteredCommand(S) # None
     /\ \/ ~enteredCommand(S)[1].requiresResource
        \/ /\ hasIndex(S.results, S.selectedIndex)
           /\ ~outsideTypes(enteredCommand(S)[1], S.results[S.selectedIndex + 1].resource)
  \/ /\ inCommandResourceSelect(S)
     /\ hasIndex(S.results, S.selectedIndex)
     /\ ~outsideTypes(S.activeCommand[1], S.results[S.selectedIndex + 1].resource)

\* C14: whenever Enter calls the execute function of a command, for every
\* command and whatever the environment decides during the call, the palette
\* is closed when the key handler returns; and no step in which a pending
\* request settles (a response, a failure or a timeout) opens a closed
\* palette.
C14_ClosedByCommand ==
  /\ [](isOpen =>
          \A T \in edited(St, Buffers \union {S_describeA}) : \A env \in Envs :
             invokes(T) => ~handleKeyDown(T, "Enter", env).isOpen)
  /\ [][(~isOpen /\ isOpen') =>
          /\ Len(requests') >= Len(requests)
          /\ SubSeq(requests', 1, Len(requests)) = requests]_vars

\* C15: at most one debounce timer is pending at any time, and it is the one
\* whose handle the palette holds; every edit of the input field, however
\* many came before it, leaves exactly one timer pending; and the step in
\* which a timer fires leaves no timer pending (one search for the whole
\* burst) and, in plain mode, shows the search over the buffer as it is then
\* (the final contents, never an earlier one).
C15_OneDebounceTimer ==
  /\ [](/\ pendingTimers <= 1
        /\ pendingTimers = 1 <=> searchDebounceTimer # NULL)
  /\ [](isOpen => \A b \in Buffers \ {inputValue} :
                     /\ typing(St, b).pendingTimers = 1
                     /\ typing(St, b).inputValue = b)
  /\ [][(pendingTimers' < pendingTimers /\ isOpen') =>
          /\ pendingTimers' = 0
          /\ inputValue' = inputValue
          /\ ~isCommandMode =>
               /\ results' = searchResults(allResources, activeFilters, inputValue)
               /\ selectedIndex' = 0]_vars

\* the buffer was edited over a loaded cluster and the timer of the last edit
\* has fired: nothing is pending and the list shows the search over the buffer
C15_Witness ==
  /\ isOpen /\ events = MaxEvents /\ ~isCommandMode
  /\ inputValue = S_query
  /\ pendingTimers = 0
  /\ results = searchResults(allResources, activeFilters, S_query)
  /\ results # <<>>

\* the command of the palette with the given id
commandOf(S, id) ==
  CHOOSE cmd \in {S.availableCommands[i] : i \in 1..Len(S.availableCommands)} : cmd.id = id

inSearching(S) == ~S.isCommandMode /\ S.autocompleteSuggestions = <<>>

\* the item of the list that carries the `selected' class
shown(S) == S.resultsList.items[S.resultsList.selected + 1]

\* the list on the screen was rendered from the results the palette holds
listIsCurrent(S) ==
  /\ Len(S.resultsList.items) = Len(S.results)
  /\ \A i \in 1..Len(S.results) : S.resultsList.items[i] = S.results[i].resource

\* C16: in an open palette whose list shows a highlighted item, Enter acts on
\* exactly that item: in Searching (the list showing the current results) it
\* opens that resource, in CommandList it executes that command, and in
\* CommandResourceSelect it executes the active command on that resource.
C16_EnterActsOnHighlighted ==
  (isOpen /\ resultsList.selected >= 0) => \A env \in Envs :
     /\ (inSearching(St) /\ resultsList.kind = "results" /\ listIsCurrent(St))
        => handleKeyDown(St, "Enter", env) = close(navigateToResource(St, shown(St)))
     /\ (inCommandList(St) /\ resultsList.kind = "commands")
        => handleKeyDown(St, "Enter", env)
             = executeSelected(St, commandOf(St, shown(St)), env)
     /\ (inCommandResourceSelect(St) /\ resultsList.kind = "commandResources")
        => handleKeyDown(St, "Enter", env) = executeCommandOnResource(St, shown(St), env)

S_kindPartial == S_kind \o <<":">>
S_logsKindPartial == S_slash \o S_logs \o S_space \o S_kind \o <<":">>

hasFilter(S, type, value) ==
  \E i \in 1..Len(S.activeFilters) : S.activeFilters[i] = Filter(type, value)

\* a suggestion is highlighted whose filter is not yet active
fresh(S) ==
  /\ chosenSuggestion(S) # None
  /\ ~hasFilter(S, S.autocompleteFilterType, chosenSuggestion(S)[1])

\* the buffer is edited to value and Tab moves the highlight to a suggestion
suggesting(S, value) == handleKeyDown(typing(S, value), "Tab", CHOOSE env \in Envs : TRUE)

\* C17: Enter in AttributeSuggest with suggestion v highlighted for attribute
\* a, (a, v) not being active yet, adds the filter (a, v); in plain mode the buffer is then empty, and
\* inside a command the buffer still starts with '/<command>' and the palette
\* is still in command mode.
C17_EnterCommitsSuggestion ==
  isOpen => \A env \in Envs :
    /\ LET T == suggesting(St, S_kindPartial)
       IN (fresh(T) /\ ~T.isCommandMode)
          => LET U == handleKeyDown(T, "Enter", env)
             IN /\ hasFilter(U, T.autocompleteFilterType, chosenSuggestion(T)[1])
                /\ U.inputValue = <<>>
    /\ LET T == suggesting(St, S_logsKindPartial)
       IN (fresh(T) /\ inCommandAutocomplete(T))
          => LET U == handleKeyDown(T, "Enter", env)
             IN /\ hasFilter(U, T.autocompleteFilterType, chosenSuggestion(T)[1])
                /\ startsWith(U.inputValue, S_slash \o S_logs)
                /\ U.isCommandMode

unwound(S, T) ==
  /\ T.isOpen
  /\ T.inputValue = <<>>
  /\ ~T.isCommandMode
  /\ T.activeFilters = S.activeFilters

\* C18: Escape in a nested mode (command mode, or attribute suggestions
\* showing in plain mode) clears the buffer, returns to plain search and
\* leaves the palette open with its active filters; it does not close it.
C18_EscapeUnwinds ==
  (isOpen /\ (isCommandMode \/ autocompleteSuggestions # <<>>))
  => \A env \in Envs : unwound(St, handleKeyDown(St, "Escape", env))

\* the buffer neither starts with the command prefix nor has a colon in it
plainBuffer(value) ==
  ~startsWith(value, S_slash) /\ ~includes(value, <<":">>)

\* the open states at hand: S when it is open, else S after the shortcut
opened(S) ==
  IF S.isOpen THEN {S} ELSE {toggle(S, env.requestId) : env \in RandomIds}

\* C19: in every open palette, whatever preceded it (commands, searches,
\* closes and reopens), Escape with a buffer that neither starts with '/' nor
\* has the form attribute:value closes the palette with that one key press.
C19_EscapeCloses ==
  \A T \in opened(St) : \A env \in Envs :
     (T.isOpen /\ plainBuffer(T.inputValue)) => ~handleKeyDown(T, "Escape", env).isOpen

S_refreshA == S_slashRefresh \o S_space \o S_query
S_refreshKindPartial == S_slashRefresh \o S_space \o S_kind \o <<":">>
S_refreshKindPod == S_slashRefresh \o S_space \o S_kind \o <<":">> \o S_Pod

\* the command list as renderCommandList shows it for the buffer of S
commandListView(S) ==
  showCommands(S, filteredCommands(S.availableCommands, S.inputValue)).resultsList

isCommandList(S) ==
  /\ S.isCommandMode
  /\ S.activeCommand = None
  /\ S.autocompleteFilterType = NULL
  /\ S.autocompleteSuggestions = <<>>
  /\ S.resultsList = commandListView(S)

\* C20: when the buffer becomes '/refresh <text>' (refresh requires no
\* resource), for every non-empty text, text of the form attribute:value
\* included, the state is CommandList: no active command, no attribute type,
\* no suggestions, and the list shows the commands filtered by the text after
\* the prefix.
C20_NoResourceCommandList ==
  isOpen => \A b \in {S_refreshA, S_refreshKindPartial, S_refreshKindPod} :
              isCommandList(typing(St, b))

(***************************************************************************)
(* A third specification, for the properties of search, filters and the    *)
(* keyboard.  It starts in the state the first specification reaches by    *)
(* IframeShortcut(w1), Deliver, IframeReceive, IframeRespond, Deliver (the *)
(* palette opened from frame w1, its listing arrived, the debounce timer   *)
(* of the reload pending), for any of a wider choice of listings, and lets *)
(* the user edit the buffer, press keys and click filter tags.  events     *)
(* counts the user events from there.                                      *)
(***************************************************************************)
S_n1 == <<"n", "1">>
NodeN1 == KubeResource(S_Node, <<>>, S_n1)
PodUpper == KubeResource(S_Pod, S_ns2, <<"A", "b">>)
S_Deployment == <<"D", "e", "p", "l", "o", "y", "m", "e", "n", "t">>
DeploymentA == KubeResource(S_Deployment, S_ns1, S_a)

\* 51 Pods of namespace ns1, named x00 .. x50: one more than RESULT_LIMIT
Digits == <<"0", "1", "2", "3", "4", "5", "6", "7", "8", "9">>
ManyPods ==
  [i \in 1..(RESULT_LIMIT + 1) |->
     KubeResource(S_Pod, S_ns1,
                  <<"x", Digits[((i - 1) \div 10) + 1], Digits[((i - 1) % 10) + 1]>>)]

\* 11 Nodes named m00 .. m10: one more than the longest suggestion list
ManyNodes ==
  [i \in 1..11 |->
     KubeResource(S_Node, <<>>,
                  <<"m", Digits[((i - 1) \div 10) + 1], Digits[((i - 1) % 10) + 1]>>)]

Catalogue ==
  {<<PodA, PodB, ServiceA>>,
   <<ServiceA, NodeN1, PodUpper, PodA>>,
   <<DeploymentA>> \o ManyPods,
   ManyNodes}

S_podA == <<"P", "o", "d", " ", "A">>
S_pa == <<"p", "a">>
S_aZ == <<"a", " ", "z">>
S_n1Query == <<"n", "1">>
S_dSlash == <<"d", "/">>
S_namespacePartial == S_namespace \o <<":">>
S_deleteKindPartial == S_slash \o S_delete \o S_space \o S_kind \o <<":">>
S_deleteZ == S_slash \o S_delete \o S_space \o <<"z">>

Queries ==
  {S_empty, S_query, S_space, S_podA, S_pa, S_aZ, S_n1Query, S_dSlash,
   S_kindPartial, S_namespacePartial,
   S_logsKindPartial, S_deleteKindPartial, S_deleteA, S_deleteZ, S_logsA}

LoadedInit ==
  \E listing \in Catalogue :
    /\ isOpen = TRUE
    /\ selectedIndex = 0
    /\ results = <<>>
    /\ allResources = listing
    /\ activeFilters = <<>>
    /\ autocompleteSuggestions = <<>>
    /\ autocompleteSelectedIndex = -1
    /\ autocompleteFilterType = NULL
    /\ isCommandMode = FALSE
    /\ availableCommands = initializeCommands
    /\ selectedCommandIndex = 0
    /\ activeCommand = None
    /\ commandSearchQuery = <<>>
    /\ resourceCache = [c \in Clusters |-> IF c = "c1" THEN Some(listing) ELSE None]
    /\ currentClusterId = "c1"
    /\ searchDebounceTimer = "timer"
    /\ activeIframeSource = "w1"
    /\ inputValue = <<>>
    /\ loadingShown = FALSE
    /\ resultsList = View("empty", "No resources found", <<>>, -1)
    /\ autocompleteHint = [items |-> <<>>, selected |-> -1]
    /\ pendingTimers = 1
    /\ lastAlert = NULL
    /\ requests = <<[kind |-> "get", requestId |-> "r1", cont |-> "open", peer |-> "w1",
                     state |-> "resolved", outcome |-> "response", listener |-> FALSE,
                     timer |-> FALSE, cleanups |-> 1]>>
    /\ toIframe = [w \in Peers |-> <<>>]
    /\ toMain = [w \in Peers |-> <<>>]
    /\ handlers = [w \in Peers |-> <<>>]
    /\ foreign = 0
    /\ events = 0
    /\ namespaceStore = [w \in Peers |-> <<>>]
    /\ selectionBefore = [w \in Peers |-> <<>>]

\* a click on the remove button of the i-th filter tag
RemoveClick(i) ==
  /\ isOpen
  /\ events < MaxEvents
  /\ i \in 1..Len(activeFilters)
  /\ Becomes(removeFilter(User, activeFilters[i].type, activeFilters[i].value))

LoadedNext ==
  \/ \E value \in Queries : Input(value)
  \/ \E key \in Keys : KeyDown(key)
  \/ DebounceFire
  \/ \E i \in 1..2 : RemoveClick(i)

LoadedSpec == LoadedInit /\ [][LoadedNext]_vars

(***************************************************************************)
(* Properties of suggestions, filters and search.                          *)
(***************************************************************************)
CommandFilterProbe(buffer, id, attribute) ==
  [buffer |-> buffer, id |-> id, attribute |-> attribute]

\* buffers '/<command> <attribute>:<partial>' of commands that require a
\* resource
CommandFilterProbes ==
  {CommandFilterProbe(S_logsKindPartial, S_logs, "kind"),
   CommandFilterProbe(S_logsKindPartial \o <<"p">>, S_logs, "kind"),
   CommandFilterProbe(S_slash \o S_logs \o S_space \o S_namespace \o <<":">>,
                      S_logs, "namespace"),
   CommandFilterProbe(S_deleteKindPartial, S_delete, "kind"),
   CommandFilterProbe(S_deleteKindPartial \o <<"s", "e">>, S_delete, "kind"),
   CommandFilterProbe(S_slash \o S_describe \o S_space \o S_node \o <<":">>,
                      S_describe, "node")}

\* the command as initializeCommands declares it
declared(id) ==
  CHOOSE cmd \in {initializeCommands[i] : i \in 1..Len(initializeCommands)} : cmd.id = id

elements(a) == {a[i] : i \in 1..Len(a)}

\* C21: when the buffer becomes '/<command> <attribute>:<partial>' and the
\* command requires a resource, the palette is in command mode suggesting
\* values of that attribute with that command active; for the kind attribute
\* every suggestion is one of the kinds the command accepts when it declares
\* any; and the accepted kinds of every command are as they were declared.
C21_CommandAttributeSuggest ==
  isOpen => \A p \in CommandFilterProbes :
    LET T == typing(St, p.buffer)
    IN /\ declared(p.id).requiresResource
       /\ T.isCommandMode
       /\ T.autocompleteFilterType = p.attribute
       /\ T.activeCommand = Some(declared(p.id))
       /\ T.autocompleteHint.items = T.autocompleteSuggestions
       /\ (p.attribute = "kind" /\ declared(p.id).resourceTypes # None)
          => elements(T.autocompleteSuggestions)
               \subseteq elements(declared(p.id).resourceTypes[1])
       /\ T.availableCommands = initializeCommands

\* '/logs kind:' typed over a listing that also holds another kind: Pod is
\* the one suggestion
C21_Witness ==
  /\ isOpen /\ inputValue = S_logsKindPartial
  /\ inCommandAutocomplete(St)
  /\ activeCommand = Some(declared(S_logs))
  /\ autocompleteSuggestions = <<S_Pod>>
  /\ \E i \in 1..Len(allResources) : allResources[i].kind # S_Pod

CommandQueryProbe(buffer, id, query) == [buffer |-> buffer, id |-> id, query |-> query]

\* buffers '/<command> <text>' of commands that require a resource
CommandQueryProbes ==
  {CommandQueryProbe(S_deleteA, S_delete, S_query),
   CommandQueryProbe(S_deleteZ, S_delete, <<"z">>),
   CommandQueryProbe(S_logsA, S_logs, S_query),
   CommandQueryProbe(S_slash \o S_describe \o S_space \o <<"N", "S", "1">>,
                     S_describe, <<"N", "S", "1">>),
   CommandQueryProbe(S_slash \o S_delete \o S_space \o <<"x">>, S_delete, <<"x">>)}

\* the resources CommandResourceSelect is to list for command cmd and text q
offered(S, cmd, q) ==
  slice(SelectSeq(S.allResources, LAMBDA r :
          /\ cmd.resourceTypes # None => r.kind \in elements(cmd.resourceTypes[1])
          /\ \A i \in 1..Len(S.activeFilters) : passesFilter(r, S.activeFilters[i])
          /\ includes(toLowerCase(getDisplayText(r)), toLowerCase(q))),
        RESULT_LIMIT)

\* C22: when the buffer becomes '/<command> <text>' for a command that
\* requires a resource, the list shows exactly the first 50, in collection
\* order, of the resources of an accepted kind that pass every active filter
\* and whose display text contains the text, case-insensitively; when there
\* is none, an empty-list message is shown and Enter executes nothing, sends
\* nothing and leaves the palette open.
C22_CommandResourceList ==
  isOpen => \A p \in CommandQueryProbes :
    LET T == typing(St, p.buffer)
        expected == offered(St, declared(p.id), p.query)
    IN /\ inCommandResourceSelect(T)
       /\ IF expected # <<>>
          THEN /\ T.resultsList.kind = "commandResources"
               /\ T.resultsList.items = expected
          ELSE /\ T.resultsList.kind = "empty"
               /\ \A env \in Envs : handleKeyDown(T, "Enter", env) = T

\* suggestions are showing, in plain mode or inside a command
inAttributeSuggest(S) ==
  /\ S.autocompleteSuggestions # <<>>
  /\ S.isCommandMode => S.autocompleteFilterType # NULL

\* C23: with n >= 1 suggestions showing, in plain mode or inside a command,
\* Tab moves the highlighted suggestion from index i to (i + 1) mod n and
\* changes nothing else but the highlight drawn in the suggestion strip.
C23_TabCycles ==
  (isOpen /\ inAttributeSuggest(St)) => \A env \in Envs :
     handleKeyDown(St, "Tab", env) =
       renderAutocompleteHint(
         [St EXCEPT !.autocompleteSelectedIndex =
            (@ + 1) % Len(autocompleteSuggestions)])

FilterProbes == {S_kindPartial, S_namespacePartial}

noDuplicates(filters) ==
  \A i, j \in 1..Len(filters) : filters[i] = filters[j] => i = j

\* filters with the i-th one taken out
without(filters, i) ==
  SubSeq(filters, 1, i - 1) \o SubSeq(filters, i + 1, Len(filters))

\* later is earlier, or earlier with one pair that was not in it put last
grownFrom(earlier, later) ==
  \/ later = earlier
  \/ /\ Len(later) = Len(earlier) + 1
     /\ SubSeq(later, 1, Len(earlier)) = earlier
     /\ \A i \in 1..Len(earlier) : earlier[i] # later[Len(later)]

\* the states after Enter on a suggestion for the buffer value, with the
\* highlight left where the edit put it or moved once with Tab; none when
\* the listing has no value to suggest (Enter on a suggestion asks the
\* environment nothing)
committing(S, value) ==
  {handleKeyDown(T, "Enter", CHOOSE env \in Envs : TRUE) :
     T \in {X \in {typing(S, value), suggesting(S, value)} :
              typing(S, value).autocompleteSuggestions # <<>>}}

\* C24: adding a pair that is already active leaves the filter list as it
\* is; the list never holds a pair twice; and it is in the order of first
\* insertion: a step leaves it alone, puts one new pair last, takes one pair
\* out or empties it.
C24_NoDuplicateFilter ==
  /\ [](isOpen =>
          /\ noDuplicates(activeFilters)
          /\ \A i \in 1..Len(activeFilters) :
               addFilter(St, activeFilters[i].type, activeFilters[i].value).activeFilters
                 = activeFilters
          /\ \A b \in FilterProbes : \A T \in committing(St, b) :
               /\ noDuplicates(T.activeFilters)
               /\ grownFrom(activeFilters, T.activeFilters)
               /\ \A c \in FilterProbes : \A U \in committing(T, c) :
                    /\ noDuplicates(U.activeFilters)
                    /\ grownFrom(T.activeFilters, U.activeFilters))
  /\ [][\/ grownFrom(activeFilters, activeFilters')
        \/ \E i \in 1..Len(activeFilters) : activeFilters' = without(activeFilters, i)
        \/ activeFilters' = <<>>]_vars

\* a filter is active and the highlighted suggestion names the same pair
C24_Witness ==
  /\ isOpen /\ ~isCommandMode
  /\ activeFilters # <<>>
  /\ chosenSuggestion(St) # None
  /\ hasFilter(St, autocompleteFilterType, chosenSuggestion(St)[1])

\* the filter list of T is that of S with one pair put last or one pair
\* taken out
addedOrRemoved(S, T) ==
  \/ /\ Len(T.activeFilters) = Len(S.activeFilters) + 1
     /\ SubSeq(T.activeFilters, 1, Len(S.activeFilters)) = S.activeFilters
  \/ \E i \in 1..Len(S.activeFilters) : T.activeFilters = without(S.activeFilters, i)

\* C25: the active filter list changes only when a filter is added, a
\* filter is removed or the palette closes.  Buffer edits, the debounced
\* search, leaving a mode with Escape, moving the highlight and the arrival
\* of a listing leave it as it is.  close gives an empty filter list, an empty
\* buffer, no results, selected index 0 and no debounce timer, and leaves
\* the resource cache as it is.
C25_FiltersPersist ==
  /\ [](isOpen =>
          /\ \A b \in Queries : typing(St, b).activeFilters = activeFilters
          /\ performSearch(St).activeFilters = activeFilters
          /\ \A env \in Envs :
               /\ \A key \in {"Tab", "ArrowDown", "ArrowUp"} :
                    handleKeyDown(St, key, env).activeFilters = activeFilters
               /\ LET T == handleKeyDown(St, "Escape", env)
                  IN IF T.isOpen THEN T.activeFilters = activeFilters
                     ELSE T.activeFilters = <<>>
               /\ LET T == handleKeyDown(St, "Enter", env)
                  IN \/ T.activeFilters = activeFilters
                     \/ addedOrRemoved(St, T)
                     \/ ~T.isOpen /\ T.activeFilters = <<>>
          /\ \A ok \in BOOLEAN : \A listing \in Catalogue :
               afterResources(St, ok, listing).activeFilters = activeFilters
          /\ LET T == close(St)
             IN /\ T.activeFilters = <<>>
                /\ T.inputValue = <<>>
                /\ T.results = <<>>
                /\ T.selectedIndex = 0
                /\ T.searchDebounceTimer = NULL
                /\ T.pendingTimers = 0
                /\ T.resourceCache = resourceCache)
  /\ [][/\ events' = events => activeFilters' = activeFilters
        /\ ~isOpen' => activeFilters' = <<>>
        /\ activeFilters' # activeFilters =>
             ~isOpen' \/ addedOrRemoved(St, [activeFilters |-> activeFilters'])]_vars

\* a filter is active, the buffer has been edited since and the debounced
\* search has run
C25_Witness ==
  /\ isOpen
  /\ activeFilters # <<>>
  /\ inputValue # <<>>
  /\ searchDebounceTimer = NULL
  /\ events = MaxEvents

\* what a filter asks of a resource
satisfies(r, f) ==
  LET wanted == toLowerCase(f.value)
  IN \/ f.type = "kind" /\ toLowerCase(r.kind) = wanted
     \/ f.type = "namespace" /\ r.namespace # <<>> /\ toLowerCase(r.namespace) = wanted
     \/ f.type = "node" /\ r.kind = S_Node /\ toLowerCase(r.name) = wanted

satisfiesAll(r, filters) == \A k \in 1..Len(filters) : satisfies(r, filters[k])

\* filter lists beyond those the suggestions produce: other letter case, a
\* node filter naming a resource that is no Node, two filters at once
FilterLists ==
  {<<>>,
   <<Filter("kind", S_Pod)>>,
   <<Filter("kind", <<"p", "o", "d">>)>>,
   <<Filter("namespace", <<"N", "S", "1">>)>>,
   <<Filter("node", <<"N", "1">>)>>,
   <<Filter("node", S_a)>>,
   <<Filter("kind", S_Pod), Filter("namespace", S_ns1)>>,
   <<Filter("kind", S_Pod), Filter("kind", S_Service)>>}

\* list holds every wanted resource, or RESULT_LIMIT of them when there are more
complete(list, wanted) ==
  /\ elements(list) \subseteq elements(wanted)
  /\ IF Len(wanted) <= RESULT_LIMIT THEN elements(list) = elements(wanted)
     ELSE Len(list) = RESULT_LIMIT

\* the resource answers the search query
answers(r, query) ==
  query = <<>> \/ totalScore(r, splitTerms(toLowerCase(query))) > 0

\* the resource is of a kind the command accepts and answers the command's text
answersCommand(r, cmd, q) ==
  /\ cmd.resourceTypes # None => r.kind \in elements(cmd.resourceTypes[1])
  /\ matchingQuery(<<r>>, toLowerCase(q)) # <<>>

RECURSIVE isSubsequence(_, _)
isSubsequence(text, term) ==
  IF term = <<>> THEN TRUE
  ELSE IF text = <<>> THEN FALSE
  ELSE IF Head(text) = Head(term) THEN isSubsequence(Tail(text), Tail(term))
  ELSE isSubsequence(Tail(text), term)

\* the term is found in the resource by one of the match tiers
termMatches(r, term) ==
  LET display == toLowerCase(getDisplayText(r))
  IN \/ includes(display, term)
     \/ includes(toLowerCase(r.name), term)
     \/ includes(toLowerCase(r.kind), term)
     \/ includes(toLowerCase(r.namespace), term)
     \/ isSubsequence(display, term)

\* C27: for a query of one or more terms a resource is in the results only
\* if every term is found in it, as a substring of its display text, name,
\* kind or namespace or as a subsequence of its display text; a resource in
\* which one term is not found is left out whatever the other terms score.
C27_EveryTermMatches ==
  (isOpen /\ ~isCommandMode) =>
    LET T == performSearch(St)
        found == {T.results[i].resource : i \in 1..Len(T.results)}
        searchTerms == splitTerms(toLowerCase(inputValue))
    IN searchTerms # <<>> =>
         /\ \A r \in found : \A k \in 1..Len(searchTerms) : termMatches(r, searchTerms[k])
         /\ \A i \in 1..Len(allResources) :
              (\E k \in 1..Len(searchTerms) : ~termMatches(allResources[i], searchTerms[k]))
                => allResources[i] \notin found

\* the search for 'Pod A' has run: Pod ns2/b, in which 'pod' is found and
\* 'a' is not, is left out
C27_Witness ==
  /\ isOpen /\ ~isCommandMode
  /\ inputValue = S_podA
  /\ searchDebounceTimer = NULL
  /\ allResources = <<PodA, PodB, ServiceA>>
  /\ resultsList.items = <<PodA>>

\* the term is a substring of the display text, name, kind or namespace
substringMatch(r, term) ==
  \/ includes(toLowerCase(getDisplayText(r)), term)
  \/ includes(toLowerCase(r.name), term)
  \/ includes(toLowerCase(r.kind), term)
  \/ includes(toLowerCase(r.namespace), term)

\* what one term contributes to the score; a subsequence match has all
\* Len(term) characters of the term matched in order
contribution(r, term) ==
  IF includes(toLowerCase(getDisplayText(r)), term) THEN 10
  ELSE IF includes(toLowerCase(r.name), term) THEN 8
  ELSE IF includes(toLowerCase(r.kind), term) THEN 6
  ELSE IF includes(toLowerCase(r.namespace), term) THEN 5
  ELSE (2 * Len(term)) \div Len(term)

RECURSIVE sumOfContributions(_, _)
sumOfContributions(r, searchTerms) ==
  IF searchTerms = <<>> THEN 0
  ELSE contribution(r, Head(searchTerms)) + sumOfContributions(r, Tail(searchTerms))

\* queries of one and two terms that some resources match by substring and
\* others only by subsequence
ScoreProbes ==
  {S_n1Query, S_pa, <<"n", " ", "n", "1">>, <<"p", "a", " ", "a">>, <<"P", "D", " ", "N", "S">>}

\* C28: the score of a listed resource is the sum over the terms of 10, 8, 6
\* or 5 for a substring of the display text, name, kind or namespace, in
\* this order of preference, and else of 2 x (characters matched in order /
\* length of the term); so a resource matching every term by substring
\* scores higher than any listed resource that matches a term by
\* subsequence only.
C28_ScoreIsSumOfTiers ==
  isOpen => \A query \in ScoreProbes \union ({inputValue} \ {<<>>}) :
    \A list \in {searchResults(allResources, activeFilters, query)} :
    \A searchTerms \in {splitTerms(toLowerCase(query))} :
      /\ \A i \in 1..Len(list) :
           list[i].matchScore = sumOfContributions(list[i].resource, searchTerms)
      /\ \A bySubstring \in {{x \in elements(list) : \A k \in 1..Len(searchTerms) :
                                substringMatch(x.resource, searchTerms[k])}} :
           \A y \in elements(list) \ bySubstring :
             \A x \in bySubstring : x.matchScore > y.matchScore

\* the search for 'n1' has run: Node n1 holds it as a substring, Service
\* ns1/a and Pod ns1/a only as a subsequence
C28_Witness ==
  /\ isOpen /\ ~isCommandMode
  /\ inputValue = S_n1Query
  /\ searchDebounceTimer = NULL
  /\ results = <<SearchResult(NodeN1, 10), SearchResult(ServiceA, 2), SearchResult(PodA, 2)>>

\* place of a resource in the collection (the listings hold no resource twice)
placeIn(resources, r) == CHOOSE i \in 1..Len(resources) : resources[i] = r

\* x comes before y in the order of the claim: higher score first, and for
\* equal scores the earlier place in the collection
ranksBefore(x, y) ==
  \/ x.matchScore > y.matchScore
  \/ x.matchScore = y.matchScore /\ x.place < y.place

\* the resources that pass the filters and match the query, with score and place
candidates(resources, filters, query) ==
  {[resource |-> resources[i],
    matchScore |-> totalScore(resources[i], splitTerms(toLowerCase(query))),
    place |-> i] :
     i \in {k \in 1..Len(resources) :
              /\ satisfiesAll(resources[k], filters)
              /\ totalScore(resources[k], splitTerms(toLowerCase(query))) > 0}}

OrderProbes == {S_dSlash, S_n1Query}

\* C29: the results of a search are in order of non-increasing score,
\* resources of equal score in the order of the collection; there are at
\* most 50 and they are the first 50 in that order of all resources that
\* match; searching again in the same state gives the same list.
C29_RankedStableCapped ==
  isOpen =>
    /\ ~isCommandMode =>
         performSearch(performSearch(St)).results = performSearch(St).results
    /\ \A query \in OrderProbes \union ({inputValue} \ {<<>>}) :
         \A list \in {searchResults(allResources, activeFilters, query)} :
         \A all \in {candidates(allResources, activeFilters, query)} :
         \A placed \in {[i \in 1..Len(list) |->
                           [resource |-> list[i].resource,
                            matchScore |-> list[i].matchScore,
                            place |-> placeIn(allResources, list[i].resource)]]} :
           /\ Len(list) = min(Cardinality(all), RESULT_LIMIT)
           /\ \A i \in 1..Len(list) : placed[i] \in all
           /\ \A i \in 1..(Len(list) - 1) : ranksBefore(placed[i], placed[i + 1])
           /\ \A y \in all \ elements(placed) : ranksBefore(placed[Len(list)], y)

\* the search for 'd/' has run over a Deployment followed by 51 Pods: the
\* Pods score higher, the first 50 of them are listed in collection order
C29_Witness ==
  /\ isOpen /\ ~isCommandMode
  /\ inputValue = S_dSlash
  /\ searchDebounceTimer = NULL
  /\ Len(allResources) = 52
  /\ Len(results) = RESULT_LIMIT
  /\ results[1].resource = allResources[2]
  /\ results[RESULT_LIMIT].resource = allResources[RESULT_LIMIT + 1]

\* every resource that satisfies the filters, in collection order, capped,
\* each with score 1
allWithScoreOne(resources, filters) ==
  mapSeq(slice(SelectSeq(resources, LAMBDA r : satisfiesAll(r, filters)), RESULT_LIMIT),
         LAMBDA r : SearchResult(r, 1))

\* C30: a search whose query has no terms, the buffer being empty or holding
\* only whitespace, returns every resource that passes the active filters,
\* in collection order, at most 50, each with score 1.
C30_NoTermsListsAll ==
  (isOpen /\ ~isCommandMode /\ splitTerms(toLowerCase(inputValue)) = <<>>) =>
    performSearch(St).results = allWithScoreOne(allResources, activeFilters)

(***************************************************************************)
(* K8sResourceService.getAllResources, run inside a cluster frame, and a   *)
(* fourth specification in which the frames answer a get-resources request *)
(* with what it returns.                                                   *)
(*                                                                         *)
(* A store is described by what happens when the loop reaches it:          *)
(*   access  "throws" (the getter of K8sApi throws), "undefined", "noApi", *)
(*           or "ok"                                                       *)
(*   list    "returns", "throws" or "none" (api.list is no function)       *)
(*   listed  what list() resolves to: Some(items), None for a non-array    *)
(*   items   the store's cached items: Some(items), None when no array     *)
(*   kind    store.api.kind                                                *)
(* An item is a resource record with a flag for its metadata.              *)
(***************************************************************************)
S_Unknown == <<"U", "n", "k", "n", "o", "w", "n">>

KubeObject(k, ns, n, metadata) ==
  [kind |-> k, namespace |-> ns, name |-> n, metadata |-> metadata]

Store(access, list, listed, items, k) ==
  [access |-> access, list |-> list, listed |-> listed, items |-> items, kind |-> k]

\* the record pushed for one item
toResource(item, store) ==
  KubeResource(IF item.kind # <<>> THEN item.kind
               ELSE IF store.kind # <<>> THEN store.kind ELSE S_Unknown,
               item.namespace, item.name)

\* a faulty listing that skips the store when list() throws
storeItemsNoFallback(store) ==
  IF store.access # "ok" THEN None
  ELSE IF store.list = "returns" THEN store.listed
  ELSE IF store.list = "throws" THEN None
  ELSE store.items

\* the items the loop body settles on: None when the store is skipped or
\* what it has is no array
storeItems(store) ==
  IF store.access # "ok" THEN None
  ELSE IF store.list = "returns" THEN store.listed
  ELSE store.items

\* what one pass of the loop body pushes
storeResources(store) ==
  LET items == storeItems(store)
  IN IF items = None THEN <<>>
     ELSE mapSeq(SelectSeq(items[1], LAMBDA item : item.metadata),
                 LAMBDA item : toResource(item, store))

RECURSIVE getAllResources(_)
getAllResources(stores) ==
  IF stores = <<>> THEN <<>>
  ELSE storeResources(Head(stores)) \o getAllResources(Tail(stores))

\* the stores of a frame: pods, services, nodes
PodItems == <<KubeObject(S_Pod, S_ns1, S_a, TRUE), KubeObject(<<>>, S_ns2, S_b, TRUE)>>
PodItemsCached == <<KubeObject(S_Pod, S_ns1, S_a, TRUE)>>
ServiceItems == <<KubeObject(S_Service, S_ns1, S_a, TRUE), KubeObject(S_Service, S_ns1, S_b, FALSE)>>
NodeItems == <<KubeObject(S_Node, <<>>, S_n1, TRUE)>>

Behaviours ==
  {<<"throws", "none">>, <<"undefined", "none">>, <<"noApi", "none">>,
   <<"ok", "returns">>, <<"ok", "throws">>, <<"ok", "none">>}

StoresFor(k, current, cached) ==
  {Store(b[1], b[2], listed, items, k) :
     b \in Behaviours, listed \in {Some(current), None}, items \in {Some(cached), None}}

StoreConfigs ==
  {<<p, s, n>> : p \in StoresFor(S_Pod, PodItems, PodItemsCached),
                 s \in StoresFor(S_Service, ServiceItems, <<>>),
                 n \in {Store("ok", "returns", Some(NodeItems), None, S_Node),
                        Store("ok", "throws", None, Some(NodeItems), S_Node),
                        Store("throws", "none", None, None, S_Node)}}

\* what getAllResources may return in a frame
ServiceListings == {getAllResources(stores) : stores \in StoreConfigs}

\* the namespaces of the cluster, and the selections the user may have made
AllNamespaces == <<S_ns1, S_ns2>>
Selections == {<<>>, <<S_ns1>>}

\* namespaceStore.selectAll(): the host either stores every namespace or
\* stores none, which selects all of them implicitly
selectAllOutcomes == {<<>>, AllNamespaces}

areAllSelectedImplicitly(selectedNamespaces) == selectedNamespaces = <<>>

\* the namespaces a selection shows
contextNamespaces(selectedNamespaces) ==
  IF selectedNamespaces = <<>> THEN elements(AllNamespaces)
  ELSE elements(selectedNamespaces)

\* a handler that has passed the prologue of getAllResources carries
\* savedNamespaces and wasAllSelected
started(handler) == "savedNamespaces" \in DOMAIN handler

Listing(data, selectedNamespaces) ==
  [type |-> data.type, requestId |-> data.requestId, resource |-> data.resource,
   resources |-> data.resources, error |-> data.error, clusterId |-> data.clusterId,
   savedNamespaces |-> selectedNamespaces,
   wasAllSelected |-> areAllSelectedImplicitly(selectedNamespaces)]

\* the finally block: what the listing leaves in the namespace store
restoredSelections(listing) ==
  IF listing.wasAllSelected THEN selectAllOutcomes
  ELSE IF listing.savedNamespaces # <<>> THEN {listing.savedNamespaces}
  ELSE {<<>>}

\* the handler of a get-resources envelope runs getAllResources up to its
\* first await: the selection is saved and every namespace selected
ServiceStart(w, i) ==
  /\ i \in 1..Len(handlers[w])
  /\ handlers[w][i].type = "k-menu-get-resources"
  /\ ~started(handlers[w][i])
  /\ Assigns([St EXCEPT !.handlers[w][i] = Listing(@, namespaceStore[w])])
  /\ \E cleared \in selectAllOutcomes :
       namespaceStore' = [namespaceStore EXCEPT ![w] = cleared]
  /\ selectionBefore' =
       IF \E k \in 1..Len(handlers[w]) : started(handlers[w][k])
       THEN selectionBefore
       ELSE [selectionBefore EXCEPT ![w] = namespaceStore[w]]

\* the handler answers: with an error when the import of the service failed
\* before getAllResources started, else with the listing, the selection
\* having been restored
ServiceRespond(w, i) ==
  /\ i \in 1..Len(handlers[w])
  /\ handlers[w][i].type = "k-menu-get-resources"
  /\ IF started(handlers[w][i])
     THEN /\ \E listing \in ServiceListings :
               Assigns(iframeRespond(St, w, i, TRUE, listing))
          /\ \E restored \in restoredSelections(handlers[w][i]) :
               namespaceStore' = [namespaceStore EXCEPT ![w] = restored]
          /\ UNCHANGED selectionBefore
     ELSE Becomes(iframeRespond(St, w, i, FALSE, <<>>))

ServiceNext ==
  \/ IframeShortcut("w1")
  \/ Deliver("w1")
  \/ IframeReceive("w1")
  \/ \E i \in 1..MaxRequests : ServiceStart("w1", i)
  \/ \E i \in 1..MaxRequests : ServiceRespond("w1", i)
  \/ \E value \in {S_empty, S_query} : Input(value)
  \/ DebounceFire

\* the user has selected all namespaces or one of them
ServiceInit ==
  /\ PaletteInit
  /\ \E selectedNamespaces \in Selections :
       namespaceStore = [w \in Peers |-> selectedNamespaces]
  /\ selectionBefore = namespaceStore

ServiceSpec == ServiceInit /\ [][ServiceNext]_vars

(***************************************************************************)
(* Properties of the resource listing and of the request ids.              *)
(***************************************************************************)
\* the listing of the store succeeded
listingSucceeded(store) ==
  store.access = "ok" /\ store.list = "returns" /\ store.listed # None

\* the listing failed or is not offered, and the store's cached items can
\* be used
cachedUsable(store) ==
  store.access = "ok" /\ store.list # "returns" /\ store.items # None

\* the resources of the items that carry metadata
resourcesOf(items, store) ==
  [k \in 1..Len(SelectSeq(items, LAMBDA item : item.metadata)) |->
     LET item == SelectSeq(items, LAMBDA x : x.metadata)[k]
     IN KubeResource(IF item.kind # <<>> THEN item.kind ELSE store.kind,
                     item.namespace, item.name)]

contributionOf(store) ==
  IF listingSucceeded(store) THEN resourcesOf(store.listed[1], store)
  ELSE IF cachedUsable(store) THEN resourcesOf(store.items[1], store)
  ELSE <<>>

\* C31: whichever stores fail at access or at list(), getAllResources
\* returns, in store order, the resources of every store whose listing
\* succeeded or whose cached items could be used, and the get-resources
\* handler then answers with a resources field and no error.
C31_PartialListing ==
  /\ \* getAllResources itself: it reads no state, once is enough
     events = 0 =>
       \A stores \in StoreConfigs :
         getAllResources(stores) =
           contributionOf(stores[1]) \o contributionOf(stores[2]) \o contributionOf(stores[3])
  /\ \A i \in 1..Len(handlers["w1"]) :
       handlers["w1"][i].type = "k-menu-get-resources" =>
         \A stores \in {<<Store("ok", "throws", None, Some(PodItemsCached), S_Pod),
                          Store("throws", "none", None, None, S_Service),
                          Store("ok", "returns", Some(NodeItems), None, S_Node)>>} :
           LET T == iframeRespond(St, "w1", i, TRUE, getAllResources(stores))
               posted == T.toMain["w1"][Len(T.toMain["w1"])]
           IN /\ Len(T.toMain["w1"]) = Len(toMain["w1"]) + 1
              /\ posted.type = "k-menu-resources-response"
              /\ posted.requestId = handlers["w1"][i].requestId
              /\ posted.resources = Some(<<PodA, NodeN1>>)
              /\ ~posted.error

\* the frame has answered with the listing it gets when list() of the pods
\* store fails and its cached items are used, the services store cannot be
\* accessed and the nodes store lists
C31_Witness ==
  \E k \in 1..Len(toMain["w1"]) :
    /\ toMain["w1"][k].type = "k-menu-resources-response"
    /\ toMain["w1"][k].resources = Some(<<PodA, NodeN1>>)

\* C32: no two requests that are pending at the same time, of whatever
\* kind, carry the same request id.
C32_DistinctPendingIds ==
  \A i, j \in 1..Len(requests) :
    (/\ i # j
     /\ requests[i].state = "pending"
     /\ requests[j].state = "pending")
      => requests[i].requestId # requests[j].requestId

(***************************************************************************)
(* Properties of the modes and of the highlighted indices.                 *)
(***************************************************************************)
\* the buffer reads '/<command> <text>' for a command that requires a resource
commandTextOf(value, text) ==
  \E i \in 1..Len(initializeCommands) :
    /\ initializeCommands[i].requiresResource
    /\ startsWith(value, S_slash \o initializeCommands[i].id \o S_space)
    /\ trim(substring(value, Len(initializeCommands[i].id) + 2)) = trim(text)

\* the flags of S are those its buffer calls for
modeOfBuffer(S) ==
  /\ S.isCommandMode <=> startsWith(S.inputValue, S_slash)
  /\ S.activeCommand # None => S.isCommandMode
  /\ S.commandSearchQuery # <<>> => commandTextOf(S.inputValue, S.commandSearchQuery)
  /\ S.autocompleteFilterType # NULL =>
       \E p \in {<<"kind", S_kind>>, <<"namespace", S_namespace>>, <<"node", S_node>>} :
         /\ S.autocompleteFilterType = p[1]
         /\ includes(toLowerCase(S.inputValue), p[2] \o <<":">>)

\* C33: whenever the palette is open, so that a key can be handled, the
\* mode flags are those the current buffer calls for: command mode exactly
\* when the buffer starts with '/', an active command only in command mode,
\* a command search text only for '/<command> <text>' of a command that
\* requires a resource, an attribute type only when the text reads
\* attribute:value.  Nothing of an earlier buffer or an earlier open is left.
C33_ModeFollowsBuffer ==
  \A T \in opened(St) : T.isOpen => modeOfBuffer(T)

\* the highlighted index of the list on screen: selectedCommandIndex for
\* the command list, selectedIndex for a list of resources
listIndex(S) == IF inCommandList(S) THEN S.selectedCommandIndex ELSE S.selectedIndex

listIndexInBounds(S) ==
  /\ 0 <= listIndex(S)
  /\ listIndex(S) <= max(0, Len(S.resultsList.items) - 1)

\* C34: the highlighted index of the list on screen, results or commands,
\* is at least 0 and at most max(0, length - 1), also after ArrowUp or
\* ArrowDown and when the list is empty or has shrunk; ArrowUp at the first
\* item and ArrowDown at the last item leave it as it is.
C34_IndexInBounds ==
  isOpen =>
    /\ listIndexInBounds(St)
    /\ \A env \in Envs :
         /\ listIndexInBounds(handleKeyDown(St, "ArrowUp", env))
         /\ listIndexInBounds(handleKeyDown(St, "ArrowDown", env))
         /\ listIndex(St) = 0 =>
              listIndex(handleKeyDown(St, "ArrowUp", env)) = 0
         /\ listIndex(St) = max(0, Len(resultsList.items) - 1) =>
              listIndex(handleKeyDown(St, "ArrowDown", env)) = listIndex(St)

suggestionIndexInBounds(S) ==
  S.autocompleteSuggestions # <<>> =>
    /\ 0 <= S.autocompleteSelectedIndex
    /\ S.autocompleteSelectedIndex < Len(S.autocompleteSuggestions)
    /\ chosenSuggestion(S) # None

\* C35: whenever suggestions are showing, the highlighted suggestion index
\* is at least 0 and less than their number, also after an edit that
\* shrinks or replaces the list and after Tab or an arrow key, so that Enter
\* has a suggestion to commit.
C35_SuggestionIndexInBounds ==
  isOpen =>
    /\ suggestionIndexInBounds(St)
    /\ \A b \in Queries : suggestionIndexInBounds(typing(St, b))
    /\ \A env \in Envs : \A key \in {"Tab", "ArrowUp", "ArrowDown"} :
         suggestionIndexInBounds(handleKeyDown(St, key, env))

(***************************************************************************)
(* Properties of the suggestion lists, the listing requests and the        *)
(* command targets.                                                        *)
(***************************************************************************)
S_nodePartial == S_node \o <<":">>

\* attribute buffers: the text typed, the attribute and partial value it
\* holds, and the kinds its command accepts (None in plain mode or for a
\* command that accepts every kind)
SuggestProbes ==
  {[buffer |-> S_kindPartial, attr |-> "kind", partial |-> <<>>, accepted |-> None],
   [buffer |-> S_kindPartial \o <<"p">>, attr |-> "kind", partial |-> <<"p">>,
    accepted |-> None],
   [buffer |-> S_namespacePartial \o <<"N">>, attr |-> "namespace", partial |-> <<"N">>,
    accepted |-> None],
   [buffer |-> S_nodePartial, attr |-> "node", partial |-> <<>>, accepted |-> None],
   [buffer |-> S_nodePartial \o <<"m">>, attr |-> "node", partial |-> <<"m">>,
    accepted |-> None],
   [buffer |-> S_logsKindPartial, attr |-> "kind", partial |-> <<>>,
    accepted |-> Some(<<S_Pod>>)],
   [buffer |-> S_slash \o S_describe \o S_space \o S_nodePartial, attr |-> "node",
    partial |-> <<>>, accepted |-> None],
   [buffer |-> S_slash \o S_describe \o S_space \o S_nodePartial \o <<"m">>,
    attr |-> "node", partial |-> <<"m">>, accepted |-> None]}

ascending(a) ==
  \A i \in 1..(Len(a) - 1) : stringLess(a[i], a[i + 1])

suggestionsFit(S, probe, list) ==
  /\ ascending(list)
  /\ \A i \in 1..Len(list) :
       /\ includes(toLowerCase(list[i]), toLowerCase(probe.partial))
       /\ IF probe.accepted # None
          THEN \E k \in 1..Len(probe.accepted[1]) : probe.accepted[1][k] = list[i]
          ELSE \E k \in 1..Len(S.allResources) :
                 CASE probe.attr = "kind" -> S.allResources[k].kind = list[i]
                   [] probe.attr = "namespace" -> S.allResources[k].namespace = list[i]
                   [] probe.attr = "node" ->
                        S.allResources[k].kind = S_Node /\ S.allResources[k].name = list[i]
  /\ Len(list) <= (IF probe.partial = <<>> THEN 10 ELSE 8)

\* C36: the suggestion list shown for an attribute has no duplicates, is
\* sorted ascending, holds only values of the unfiltered resource set
\* (whatever filters are active) or kinds the command accepts, every entry
\* contains the typed partial value case-insensitively, and it has at most
\* 10 entries for an empty partial value and at most 8 otherwise, in plain
\* mode and inside a command alike.
C36_SuggestionList ==
  isOpen =>
    \A probe \in SuggestProbes :
      \A T \in {typing(St, probe.buffer)} :
        suggestionsFit(St, probe, T.autocompleteSuggestions)

inFlight(request) == request.kind = "get" /\ request.state = "pending"

\* a fetch issued on a cache miss next to the refresh behind a cached listing
toleratedOverlap(a, b) == (a.cont = "background") # (b.cont = "background")

\* C37: for each context at most one get-resources request is in flight at
\* any time, whatever opens, closes, toggles, refresh commands and delete
\* commands preceded, apart from the overlap of a cache-miss fetch with a
\* background refresh.
C37_OneListingInFlight ==
  \A i, j \in 1..Len(requests) :
    (i < j /\ inFlight(requests[i]) /\ inFlight(requests[j])
       /\ requests[i].peer = requests[j].peer)
      => toleratedOverlap(requests[i], requests[j])

listingRunning(w) == \E k \in 1..Len(handlers[w]) : started(handlers[w][k])

\* C38: once every listing of a cluster frame has returned, the host's
\* namespace selection is what it was before the first of them started,
\* whatever the listings' outcomes and also when two listings overlapped.
C38_SelectionRestored ==
  \A w \in Peers :
    ~listingRunning(w) =>
      contextNamespaces(namespaceStore[w]) = contextNamespaces(selectionBefore[w])

refreshSucceeded == "Resources refreshed successfully"

\* C39: the refresh command reports success only when a get-resources
\* request it sent has resolved: not when that request fails or times out,
\* and not when no request is sent for want of a context id.
C39_RefreshSuccessNeedsResolve ==
  [][(lastAlert' = refreshSucceeded /\ lastAlert # refreshSucceeded)
       => \E i \in 1..Len(requests) :
            /\ requests[i].kind = "get"
            /\ requests[i].cont = "refresh"
            /\ requests[i].state = "pending"
            /\ requests'[i].state = "resolved"]_vars

\* the envelopes with which a command acts on a resource
CommandRequestTypes == {"k-menu-open-logs", "k-menu-delete-resource"}

\* the resource is one of the entries resultsList shows
displayed(S, resource) ==
  /\ S.resultsList.kind \in {"results", "commandResources"}
  /\ \E j \in 1..Len(S.resultsList.items) : S.resultsList.items[j] = resource

\* C40: a command that requires a resource is executed only on a resource
\* of the list displayed when Enter is pressed, never on an entry of a
\* result list left over from an earlier plain search or command buffer.
C40_TargetIsDisplayed ==
  isOpen =>
    \A env \in Envs :
      \A T \in {handleKeyDown(St, "Enter", env)} :
        \A w \in Peers :
          \A k \in (Len(toIframe[w]) + 1)..Len(T.toIframe[w]) :
            T.toIframe[w][k].type \in CommandRequestTypes =>
              displayed(St, T.toIframe[w][k].resource[1])
====
